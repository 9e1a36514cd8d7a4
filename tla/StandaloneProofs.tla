----------------------------- MODULE StandaloneProofs -----------------------------
(***************************************************************************)
(* Theorems about the components that keep to themselves, for any values   *)
(* of the constants.                                                       *)
(*                                                                         *)
(* ReviewBatch and ReviewBatchBuild: the documents of a READY batch are    *)
(* frozen, a user gets one review of a batch, and a run that completes by  *)
(* itself has earned it.  MetadataLog: the projection of a field is that   *)
(* of its whole log, and what it shows as a value stands.  Administration: *)
(* configurations are copied whole and memberships stay within their       *)
(* tenant, however commands and copies interleave.  Sessions: a sign-out   *)
(* is final.  Revisions: the histories of a Matter Definition and of an    *)
(* agent are serial, however many commands are in flight.                  *)
(***************************************************************************)
EXTENDS ReviewBatch, MetadataLog, Administration, Revisions, Sessions, SumsProofs

(***************************************************************************)
(* Operators on sequences.                                                 *)
(***************************************************************************)

\* A sample of a sequence is a sequence of the same elements.
LEMMA SampleIsSequence ==
  ASSUME NEW S, NEW ids \in Seq(S), NEW n \in Nat
  PROVE  Sample(ids, n) \in Seq(S)
<1>1. CASE n = 0 \/ n >= Len(ids)
  BY <1>1 DEF Sample
<1>2. CASE ~(n = 0 \/ n >= Len(ids))
  <2>1. Sample(ids, n) = SubSeq(ids, 1, n) /\ Len(ids) \in Nat
    BY <1>2 DEF Sample
  <2>2. \A i \in 1..n : ids[i] \in S
    BY <1>2, <2>1
  <2> QED BY <1>2, <2>1, <2>2
<1> QED BY <1>1, <1>2

\* A sequence has at most as many different elements as its length.
LEMMA ElementsBounded ==
  ASSUME NEW S, NEW s \in Seq(S)
  PROVE  /\ IsFiniteSet(ToSet(s)) /\ Cardinality(ToSet(s)) \in Nat
         /\ Cardinality(ToSet(s)) <= Len(s)
<1>1. Len(s) \in Nat /\ DOMAIN s = 1..Len(s)
  OBVIOUS
<1>2. s \in Surjection(1..Len(s), ToSet(s))
  BY <1>1 DEF Surjection, ToSet
<1>3. IsFiniteSet(1..Len(s)) /\ Cardinality(1..Len(s)) = Len(s)
  BY <1>1, FS_Interval
<1>4. IsFiniteSet(ToSet(s)) /\ Cardinality(ToSet(s)) <= Cardinality(1..Len(s))
  BY <1>2, <1>3, FS_Surjection
<1> QED BY <1>3, <1>4, FS_CardinalityType

(***************************************************************************)
(* The building of batches.                                                *)
(***************************************************************************)

\* The rows a build leaves for its batches.
BatchRows ==
    [status : BatchStatus, selection : SelectionTypes \cup {"ALL_MATTER"},
     source : Batches \cup {NoBatch}, sample : Nat, order : Seq(MatterDocs),
     members : Seq(MatterDocs), count : Nat, assigned : Reviewers \cup {Nobody},
     search : SearchStatus, build : BuildPC, attempts : 0..MaxBuildAttempts]

\* A batch counts its members, and its workflow has an attempt left while it runs.
BuildInv ==
    /\ documents \in Seq(MatterDocs)
    /\ batch \in [Batches -> BatchRows]
    /\ \A b \in Batches : /\ batch[b].count = Len(batch[b].members)
                          /\ batch[b].build = "materialize" => batch[b].attempts < MaxBuildAttempts

\* What a READY batch keeps.
Frozen ==
    \A b \in Batches : IsReady(b) => /\ batch'[b].status = "READY"
                                     /\ batch'[b].members = batch[b].members

\* A step that replaces the row of one batch by one of the right type.
LEMMA RowReplaced ==
  ASSUME BuildInv, NEW b \in Batches, NEW row \in BatchRows,
         batch' = [batch EXCEPT ![b] = row], documents' = documents,
         row.count = Len(row.members),
         row.build = "materialize" => row.attempts < MaxBuildAttempts,
         IsReady(b) => row.status = "READY" /\ row.members = batch[b].members
  PROVE  BuildInv' /\ Frozen
  BY DEF BuildInv, Frozen, IsReady

\* The selection of a batch yields documents.
LEMMA SelectionsAreDocuments ==
  ASSUME BuildInv, NEW b \in Batches, NEW ids \in Selections(b)
  PROVE  ids \in Seq(MatterDocs)
<1>1. CASE batch[b].selection = "SEARCH_QUERY"
  <2>1. PICK hits : ids = Kept(SetToSeq(MatterDocs), hits)
    BY <1>1 DEF Selections
  <2>2. SetToSeq(MatterDocs) \in Seq(MatterDocs)
    BY BuildAssumption, EnumerationIsSequence
  <2>3. Kept(SetToSeq(MatterDocs), hits) \in Seq(MatterDocs \cap hits)
    BY <2>2, KeptIsSequence
  <2> QED BY <2>1, <2>3
<1>2. CASE batch[b].selection # "SEARCH_QUERY"
  <2>1. ids = DatabaseDocumentIds(b)
    BY <1>2 DEF Selections
  <2>2. batch[b].order \in Seq(MatterDocs) /\ batch[b].sample \in Nat
    BY DEF BuildInv, BatchRows
  <2>3. ASSUME NEW T
        PROVE  Sample(Kept(batch[b].order, T), batch[b].sample) \in Seq(MatterDocs)
    <3>1. Kept(batch[b].order, T) \in Seq(MatterDocs \cap T)
      BY <2>2, KeptIsSequence
    <3>2. Kept(batch[b].order, T) \in Seq(MatterDocs)
      BY <3>1
    <3> QED BY <2>2, <3>2, SampleIsSequence
  <2> QED BY <2>1, <2>3 DEF DatabaseDocumentIds, BuildInv
<1> QED BY <1>1, <1>2

\* The rows that the selection may leave count their members; a READY row stays.
LEMMA SelectedRows ==
  ASSUME BuildInv, NEW b \in Batches, NEW row \in Selected(b)
  PROVE  /\ row \in BatchRows /\ row.count = Len(row.members)
         /\ row.build = batch[b].build /\ row.attempts = batch[b].attempts
         /\ row.status = "READY"
         /\ IsReady(b) => row.members = batch[b].members
<1>1. CASE IsReady(b)
  BY <1>1 DEF Selected, IsReady, BuildInv
<1>2. CASE ~IsReady(b)
  <2>1. PICK ids \in Selections(b) :
            row = [batch[b] EXCEPT !.members = ids, !.count = Len(ids), !.status = "READY"]
    BY <1>2 DEF Selected
  <2>2. ids \in Seq(MatterDocs) /\ Len(ids) \in Nat
    BY SelectionsAreDocuments
  <2>3. batch[b] \in BatchRows
    BY DEF BuildInv
  <2>4. /\ row.members = ids /\ row.count = Len(ids) /\ row.status = "READY"
        /\ row.build = batch[b].build /\ row.attempts = batch[b].attempts
    BY <2>1, <2>3 DEF BatchRows
  <2>5. row \in BatchRows
    BY <2>1, <2>2, <2>3 DEF BatchRows, BatchStatus
  <2> QED BY <1>2, <2>4, <2>5
<1> QED BY <1>1, <1>2

\* A batch that does not exist has a row of the right type.
LEMMA NoBatchRow == NoReviewBatch \in BatchRows
  BY BuildAssumption DEF NoReviewBatch, BatchRows, BatchStatus, SearchStatus, BuildPC

\* The matter starts with some of its documents and without batches.
LEMMA BuildStarts == ASSUME BuildInit PROVE BuildInv
<1>1. documents \in Seq(MatterDocs)
  <2>1. PICK n \in 0..Cardinality(MatterDocs) : documents = SubSeq(SetToSeq(MatterDocs), 1, n)
    BY DEF BuildInit
  <2>2. /\ SetToSeq(MatterDocs) \in Seq(MatterDocs)
        /\ Len(SetToSeq(MatterDocs)) = Cardinality(MatterDocs)
        /\ Cardinality(MatterDocs) \in Nat
    BY BuildAssumption, EnumerationIsSequence, FS_CardinalityType
  <2>3. \A i \in 1..n : SetToSeq(MatterDocs)[i] \in MatterDocs
    BY <2>2
  <2> QED BY <2>1, <2>2, <2>3
<1>2. NoReviewBatch \in BatchRows
  BY NoBatchRow
<1>3. NoReviewBatch.count = Len(NoReviewBatch.members) /\ NoReviewBatch.build = "none"
  BY DEF NoReviewBatch
<1> QED BY <1>1, <1>2, <1>3 DEF BuildInit, BuildInv

\* An import adds a document; no batch changes.
LEMMA AddDocumentBuilds ==
  ASSUME BuildInv, NEW d \in MatterDocs, AddDocument(d)
  PROVE  BuildInv' /\ Frozen
  BY DEF AddDocument, BuildInv, Frozen, IsReady

\* A new batch is QUEUED and has no documents.
LEMMA CreateBatchBuilds ==
  ASSUME BuildInv, NEW b \in Batches, NEW selection \in SelectionTypes,
         NEW source \in Batches \cup {NoBatch}, NEW sample \in SampleSizes \cup {0},
         NEW order \in StableOrders \cup {<<>>}, NEW user \in Reviewers \cup {Nobody},
         CreateBatch(b, selection, source, sample, order, user)
  PROVE  BuildInv' /\ Frozen
<1> DEFINE row == [NoReviewBatch EXCEPT
                      !.status = "QUEUED", !.selection = selection, !.source = source,
                      !.sample = sample, !.order = order, !.assigned = user,
                      !.build = "materialize"]
<1>1. batch' = [batch EXCEPT ![b] = row] /\ documents' = documents /\ ~IsReady(b)
  BY DEF CreateBatch, IsReady
<1>2. /\ NoReviewBatch \in BatchRows /\ NoReviewBatch.members = <<>>
      /\ NoReviewBatch.count = 0 /\ NoReviewBatch.attempts = 0
  BY NoBatchRow DEF NoReviewBatch
<1>3. order \in Seq(MatterDocs) /\ sample \in Nat
  <2>1. Cardinality(MatterDocs) \in Nat
    BY BuildAssumption, FS_CardinalityType
  <2>2. CASE order = <<>>
    BY <2>2, BuildAssumption
  <2>3. CASE order \in StableOrders
    <3>1. order \in [1..Cardinality(MatterDocs) -> MatterDocs]
      BY <2>3 DEF StableOrders, SetToSeqs
    <3> QED BY <2>1, <3>1, BuildAssumption
  <2> QED BY <2>2, <2>3
<1>4. "QUEUED" \in BatchStatus /\ "materialize" \in BuildPC
  BY DEF BatchStatus, BuildPC
<1>5. row \in BatchRows
  BY <1>2, <1>3, <1>4 DEF BatchRows
<1>6. row.count = 0 /\ row.members = <<>> /\ row.attempts = 0
  BY <1>2 DEF BatchRows
<1> HIDE DEF row
<1>7. row.count = Len(row.members) /\ row.attempts < MaxBuildAttempts
  BY <1>6, BuildAssumption
<1> QED BY <1>1, <1>5, <1>7, RowReplaced

\* The selection commits, with or without the record of its step; or it is rolled back.
LEMMA MaterializeBuilds ==
  ASSUME BuildInv, NEW b \in Batches,
         Materialize(b) \/ MaterializeReplays(b) \/ MaterializeFails(b)
  PROVE  BuildInv' /\ Frozen
<1> USE BuildAssumption
<1>1. /\ batch[b] \in BatchRows /\ batch[b].build = "materialize"
      /\ batch[b].attempts \in Nat /\ batch[b].count = Len(batch[b].members)
      /\ batch[b].attempts < MaxBuildAttempts /\ documents' = documents
  <2>1. batch[b].build = "materialize" /\ documents' = documents
    BY DEF Materialize, MaterializeReplays, MaterializeFails
  <2>2. batch[b] \in BatchRows
    BY DEF BuildInv
  <2>3. batch[b].attempts \in Nat
    BY <2>2 DEF BatchRows
  <2> QED BY <2>1, <2>2, <2>3 DEF BuildInv
<1>2. CASE Materialize(b)
  <2>1. PICK row \in Selected(b) :
            batch' = [batch EXCEPT ![b] = [row EXCEPT !.build = "sync", !.attempts = 0]]
    BY <1>2 DEF Materialize
  <2> DEFINE next == [row EXCEPT !.build = "sync", !.attempts = 0]
  <2>2. /\ row \in BatchRows /\ row.count = Len(row.members) /\ row.status = "READY"
        /\ IsReady(b) => row.members = batch[b].members
    BY SelectedRows
  <2>3. /\ next.count = row.count /\ next.build = "sync"
        /\ next.status = "READY" /\ next.members = row.members
    BY <2>2 DEF BatchRows
  <2>4. "sync" \in BuildPC /\ 0 \in 0..MaxBuildAttempts
    BY DEF BuildPC
  <2>5. next \in BatchRows
    BY <2>2, <2>4 DEF BatchRows
  <2> HIDE DEF next
  <2>6. batch' = [batch EXCEPT ![b] = next]
    BY <2>1 DEF next
  <2> QED BY <1>1, <2>2, <2>3, <2>5, <2>6, RowReplaced
<1>3. CASE MaterializeReplays(b)
  <2>1. PICK row \in Selected(b) : batch' = [batch EXCEPT ![b] = [row EXCEPT !.attempts = @ + 1]]
    BY <1>3 DEF MaterializeReplays
  <2> DEFINE next == [row EXCEPT !.attempts = @ + 1]
  <2>2. /\ row \in BatchRows /\ row.count = Len(row.members) /\ row.status = "READY"
        /\ row.attempts = batch[b].attempts
        /\ IsReady(b) => row.members = batch[b].members
    BY SelectedRows
  <2>3. batch[b].attempts + 1 < MaxBuildAttempts
    BY <1>3 DEF MaterializeReplays
  <2>4. /\ next.count = row.count /\ next.attempts = batch[b].attempts + 1
        /\ next.status = "READY" /\ next.members = row.members
    BY <2>2 DEF BatchRows
  <2>5. next \in BatchRows
    <3>1. row.attempts + 1 \in 0..MaxBuildAttempts
      BY <1>1, <2>2, <2>3
    <3> QED BY <2>2, <3>1 DEF BatchRows
  <2> HIDE DEF next
  <2>6. batch' = [batch EXCEPT ![b] = next]
    BY <2>1 DEF next
  <2> QED BY <1>1, <2>2, <2>3, <2>4, <2>5, <2>6, RowReplaced
<1>4. CASE MaterializeFails(b)
  <2> DEFINE next == [batch[b] EXCEPT !.status = "FAILED", !.attempts = @ + 1,
                        !.build = IF batch[b].attempts + 1 = MaxBuildAttempts THEN "error" ELSE @]
  <2>1. batch' = [batch EXCEPT ![b] = next] /\ ~IsReady(b)
    BY <1>4 DEF MaterializeFails, BuildInv
  <2>2. /\ next.count = batch[b].count /\ next.members = batch[b].members
        /\ next.attempts = batch[b].attempts + 1
        /\ next.build = IF batch[b].attempts + 1 = MaxBuildAttempts THEN "error"
                        ELSE batch[b].build
    BY <1>1 DEF BatchRows
  <2>3. next \in BatchRows
    <3>1. /\ "FAILED" \in BatchStatus /\ "error" \in BuildPC
          /\ batch[b].attempts + 1 \in 0..MaxBuildAttempts
      BY <1>1 DEF BatchStatus, BuildPC
    <3> QED BY <1>1, <3>1 DEF BatchRows
  <2> HIDE DEF next
  <2>4. /\ next.count = Len(next.members)
        /\ next.build = "materialize" => next.attempts < MaxBuildAttempts
    BY <1>1, <2>2
  <2> QED BY <1>1, <2>1, <2>3, <2>4, RowReplaced
<1> QED BY <1>2, <1>3, <1>4

\* Every step of the building keeps the invariant and what READY batches hold.
LEMMA BuildSteps == ASSUME BuildInv, BuildNext PROVE BuildInv' /\ Frozen
  BY AddDocumentBuilds, CreateBatchBuilds, MaterializeBuilds DEF BuildNext

(***************************************************************************)
(* Reviews and their runs.                                                 *)
(***************************************************************************)

\* The rows of the review runs and the answers in progress.
RunRows ==
    [batch : Batches, type : {"HUMAN", "AGENT"}, user : Reviewers \cup {Nobody},
     purpose : Purposes \cup {"REVIEW"}, status : {"RUNNING", "COMPLETED"}, count : Nat,
     opened : BOOLEAN, closed : BOOLEAN, progress : [MatterDocs -> DocumentStatus],
     values : [MatterDocs -> CodedValues \cup {NoValue}]]

ReviewRequests ==
    [pc : {"idle"}]
    \cup [pc : {"opening"}, batch : Batches, user : Reviewers, found : BOOLEAN]
    \cup [pc : {"coding", "coded"}, run : Nat, doc : MatterDocs, mark : Processed,
          value : CodedValues \cup {NoValue}, fresh : BOOLEAN, old : CodedValues \cup {NoValue},
          seen : Nat, count : Nat, keeps : BOOLEAN]

\* The documents of a run that are processed.
Marked(r) == {d \in MatterDocs : runs[r].progress[d] \in Processed}

\* Runs are of READY batches, and only documents of the batch are coded in them.
RunsInv ==
    /\ runs \in Seq(RunRows)
    /\ requests \in [Requests -> ReviewRequests]
    /\ \A r \in RunIds : IsReady(runs[r].batch) /\ Marked(r) \subseteq MembersOf(runs[r].batch)
    /\ \A q \in Requests : requests[q].pc \in {"coding", "coded"} =>
          requests[q].run \in RunIds /\ requests[q].doc \in MembersOf(runs[requests[q].run].batch)

\* A request that found no review of its user still finds none when it commits: it alone
\* holds the lock of the batch, and runs created without the lock are not opened reviews.
OpeningInv ==
    /\ OneReviewPerReviewer
    /\ \A r \in RunIds : runs[r].opened => runs[r].type = "HUMAN" /\ runs[r].purpose = "REVIEW"
    /\ \A q \in Requests : requests[q].pc = "opening" =>
          /\ IsReady(requests[q].batch)
          /\ \A p \in Requests :
                requests[p].pc = "opening" /\ requests[p].batch = requests[q].batch => p = q
          /\ ~requests[q].found =>
                ~\E r \in RunIds : /\ runs[r].opened /\ runs[r].batch = requests[q].batch
                                   /\ runs[r].user = requests[q].user

\* What a request has counted is at most what is marked, with its own document.
EarnedInv ==
    /\ CompletionIsEarned
    /\ \A q \in Requests : requests[q].pc = "coded" =>
          requests[q].count <= Cardinality(Marked(requests[q].run) \cup {requests[q].doc})

\* The inductive invariant: the build, the runs, their opening and their completion.
ReviewInv == BuildInv /\ RunsInv /\ OpeningInv /\ EarnedInv

\* A step that ends requests or leaves them alone.
Finishing ==
    /\ requests' \in [Requests -> ReviewRequests]
    /\ \A q \in Requests : requests'[q] \in {requests[q], IdleReview}

\* A request that is answered ends, and the others stay where they are.
LEMMA AnswerFinishes ==
  ASSUME RunsInv, NEW q \in Requests, Answer(q)
  PROVE  Finishing
  BY DEF RunsInv, Answer, Finishing, IdleReview, ReviewRequests

\* Sets of documents are finite, and a larger set has no fewer elements.
LEMMA DocumentSets ==
  ASSUME NEW S, NEW T, S \subseteq T, T \subseteq MatterDocs
  PROVE  /\ IsFiniteSet(S) /\ IsFiniteSet(T)
         /\ Cardinality(S) \in Nat /\ Cardinality(T) \in Nat
         /\ Cardinality(S) <= Cardinality(T)
         /\ Cardinality(S) = Cardinality(T) => S = T
<1>1. IsFiniteSet(T)
  BY BuildAssumption, FS_Subset
<1> QED BY <1>1, FS_Subset, FS_CardinalityType

\* What batches that are READY keep.
LEMMA ReadyStays ==
  ASSUME BuildInv, BuildInv', Frozen
  PROVE  \A b \in Batches : IsReady(b) => /\ batch'[b].status = "READY"
                                          /\ batch'[b].members = batch[b].members
                                          /\ batch'[b].count = batch[b].count
  BY DEF BuildInv, Frozen

\* The rows of the runs.
LEMMA RunFields ==
  ASSUME RunsInv, NEW r \in RunIds
  PROVE  /\ runs[r] \in RunRows /\ runs[r].batch \in Batches
         /\ runs[r].progress \in [MatterDocs -> DocumentStatus] /\ runs[r].count \in Nat
         /\ r \in 1..Len(runs) /\ Len(runs) \in Nat
<1>1. runs \in Seq(RunRows) /\ r \in DOMAIN runs
  BY DEF RunsInv, RunIds
<1>2. runs[r] \in RunRows /\ r \in 1..Len(runs) /\ Len(runs) \in Nat
  BY <1>1
<1> QED BY <1>2 DEF RunRows

\* While the runs stay, batches may be built and assigned and requests may end.
LEMMA RunsStay ==
  ASSUME ReviewInv, BuildInv', Frozen, runs' = runs, Finishing
  PROVE  ReviewInv'
<1> USE DEF ReviewInv
<1>1. \A b \in Batches : IsReady(b) => /\ batch'[b].status = "READY"
                                       /\ batch'[b].members = batch[b].members
                                       /\ batch'[b].count = batch[b].count
  BY ReadyStays
<1>2. \A r \in RunIds : runs[r].batch \in Batches /\ IsReady(runs[r].batch)
  BY RunFields DEF RunsInv
<1>3. RunsInv'
  <2>1. \A r \in RunIds : Marked(r)' = Marked(r)
    BY DEF Marked
  <2>2. \A q \in Requests : requests'[q].pc \in {"coding", "coded"} => requests'[q] = requests[q]
    BY DEF Finishing, IdleReview
  <2> QED BY <1>1, <1>2, <2>1, <2>2 DEF RunsInv, RunIds, Finishing, IsReady, MembersOf
<1>4. OpeningInv'
  <2>1. \A q \in Requests : requests'[q].pc = "opening" => requests'[q] = requests[q]
    BY DEF Finishing, IdleReview
  <2>2. ASSUME NEW q \in Requests, requests[q].pc = "opening"
        PROVE  requests[q].batch \in Batches
    BY <2>2 DEF RunsInv, ReviewRequests
  <2>3. \A q \in Requests : requests'[q].pc = "opening" => batch'[requests'[q].batch].status = "READY"
    BY <1>1, <2>1, <2>2 DEF OpeningInv
  <2>4. OneReviewPerReviewer'
    BY DEF OpeningInv, OneReviewPerReviewer, RunIds
  <2> QED BY <2>1, <2>3, <2>4 DEF OpeningInv, RunIds, IsReady
<1>5. EarnedInv'
  <2>1. CompletionIsEarned'
    BY <1>1, <1>2 DEF EarnedInv, CompletionIsEarned, NotStarted, RunIds, IsReady, MembersOf
  <2>2. \A q \in Requests : requests'[q].pc = "coded" => requests'[q] = requests[q]
    BY DEF Finishing, IdleReview
  <2> QED BY <2>1, <2>2 DEF EarnedInv, Marked
<1> QED BY <1>3, <1>4, <1>5

\* A run that is created has nothing marked.
LEMMA RunCreated ==
  ASSUME ReviewInv, BuildInv', Frozen, Finishing,
         NEW row \in RunRows, runs' = Append(runs, row), IsReady(row.batch),
         row.status = "RUNNING", row.count = 0, row.progress = [d \in MatterDocs |-> "NOT_STARTED"],
         NEW n \in Nat, n = Len(runs)
  PROVE  /\ RunsInv' /\ EarnedInv'
         /\ RunIds = 1..n /\ RunIds' = 1..(n + 1)
         /\ \A r \in RunIds : runs'[r] = runs[r]
         /\ runs'[n + 1] = row
<1> USE DEF ReviewInv
<1>1. /\ runs' \in Seq(RunRows) /\ RunIds = 1..n /\ RunIds' = 1..(n + 1)
      /\ \A r \in RunIds : runs'[r] = runs[r]
      /\ runs'[n + 1] = row
  <2>1. runs \in Seq(RunRows)
    BY DEF RunsInv
  <2>2. DOMAIN runs = 1..n
    BY <2>1
  <2> QED BY <2>1, <2>2 DEF RunIds
<1>2. \A b \in Batches : IsReady(b) => /\ batch'[b].status = "READY"
                                       /\ batch'[b].members = batch[b].members
                                       /\ batch'[b].count = batch[b].count
  BY ReadyStays
<1>3. \A r \in RunIds : runs[r].batch \in Batches /\ IsReady(runs[r].batch)
  BY RunFields DEF RunsInv
<1>4. row.batch \in Batches
  BY DEF RunRows
<1>5. /\ \A r \in RunIds : Marked(r)' = Marked(r)
      /\ Marked(n + 1)' = {}
  BY <1>1 DEF Marked, Processed
<1>6. \A r \in RunIds' : r \in RunIds \/ r = n + 1
  BY <1>1
<1>7. RunsInv'
  <2>1. \A r \in RunIds' : IsReady(runs[r].batch)' /\ Marked(r)' \subseteq MembersOf(runs[r].batch)'
    BY <1>1, <1>2, <1>3, <1>4, <1>5, <1>6 DEF RunsInv, IsReady, MembersOf
  <2>2. \A q \in Requests : requests'[q].pc \in {"coding", "coded"} => requests'[q] = requests[q]
    BY DEF Finishing, IdleReview
  <2>3. \A q \in Requests : requests'[q].pc \in {"coding", "coded"} =>
          requests'[q].run \in RunIds' /\ requests'[q].doc \in MembersOf(runs[requests[q].run].batch)'
    BY <1>1, <1>2, <1>3, <2>2 DEF RunsInv, IsReady, MembersOf
  <2> QED BY <1>1, <2>1, <2>3 DEF RunsInv, Finishing
<1>8. EarnedInv'
  <2>1. ASSUME NEW r \in RunIds'
        PROVE  /\ runs'[r].count <= Cardinality(Marked(r)')
               /\ runs'[r].status = "COMPLETED" /\ ~runs'[r].closed =>
                     MembersOf(runs[r].batch)' \subseteq Marked(r)' /\ NotStarted(r)' = 0
    <3>1. CASE r = n + 1
      <4>1. Marked(r)' = {} /\ runs'[r] = row
        BY <1>1, <1>5, <3>1
      <4> QED BY <4>1, FS_EmptySet
    <3>2. CASE r \in RunIds
      <4>1. /\ Marked(r)' = Marked(r) /\ runs'[r] = runs[r]
            /\ batch'[runs[r].batch].members = batch[runs[r].batch].members
            /\ batch'[runs[r].batch].count = batch[runs[r].batch].count
        BY <1>1, <1>2, <1>3, <1>5, <3>2
      <4>2. /\ runs[r].count <= Cardinality(Marked(r))
            /\ runs[r].status = "COMPLETED" /\ ~runs[r].closed =>
                  MembersOf(runs[r].batch) \subseteq Marked(r) /\ NotStarted(r) = 0
        BY <3>2 DEF EarnedInv, CompletionIsEarned, Marked
      <4>3. /\ NotStarted(r) = batch[runs[r].batch].count - Cardinality(Marked(r))
            /\ NotStarted(r)' = batch'[runs'[r].batch].count - Cardinality(Marked(r)')
        BY DEF NotStarted, Marked
      <4> QED BY <4>1, <4>2, <4>3 DEF MembersOf
    <3> QED BY <1>6, <3>1, <3>2
  <2>2. CompletionIsEarned'
    BY <2>1 DEF CompletionIsEarned, Marked
  <2>3. \A q \in Requests : requests'[q].pc = "coded" => requests'[q] = requests[q]
    BY DEF Finishing, IdleReview
  <2>4. ASSUME NEW q \in Requests, requests'[q].pc = "coded"
        PROVE  requests'[q].count <= Cardinality(Marked(requests[q].run)' \cup {requests'[q].doc})
    <3>1. requests'[q] = requests[q] /\ requests[q].run \in RunIds
      BY <2>3, <2>4 DEF RunsInv
    <3> QED BY <1>5, <2>4, <3>1 DEF EarnedInv
  <2> QED BY <2>2, <2>4 DEF EarnedInv
<1> QED BY <1>1, <1>7, <1>8

\* A run keeps who it is for; its marks grow within the batch.
LEMMA RunUpdated ==
  ASSUME ReviewInv, UNCHANGED <<documents, batch>>, Finishing,
         NEW r \in RunIds, NEW row \in RunRows, runs' = [runs EXCEPT ![r] = row],
         row.batch = runs[r].batch, row.user = runs[r].user, row.opened = runs[r].opened,
         row.type = runs[r].type, row.purpose = runs[r].purpose,
         NEW marked, marked = {d \in MatterDocs : row.progress[d] \in Processed},
         Marked(r) \subseteq marked, marked \subseteq MembersOf(row.batch),
         row.count <= Cardinality(marked),
         row.status = "COMPLETED" /\ ~row.closed =>
            MembersOf(row.batch) \subseteq marked /\ batch[row.batch].count = Cardinality(marked)
  PROVE  ReviewInv'
<1> USE DEF ReviewInv
<1>1. /\ runs' \in Seq(RunRows) /\ RunIds' = RunIds
      /\ runs'[r] = row /\ \A s \in RunIds \ {r} : runs'[s] = runs[s]
  <2>1. runs \in Seq(RunRows)
    BY DEF RunsInv
  <2>2. Len(runs) \in Nat /\ DOMAIN runs = 1..Len(runs)
    BY <2>1
  <2> QED BY <2>1, <2>2 DEF RunIds
<1>2. /\ Marked(r)' = marked
      /\ \A s \in RunIds \ {r} : Marked(s)' = Marked(s)
  BY <1>1 DEF Marked
<1>3. BuildInv'
  BY DEF BuildInv
<1>4. \A s \in RunIds : /\ runs'[s].batch = runs[s].batch /\ runs'[s].user = runs[s].user
                        /\ runs'[s].opened = runs[s].opened /\ runs'[s].type = runs[s].type
                        /\ runs'[s].purpose = runs[s].purpose
                        /\ Marked(s) \subseteq Marked(s)'
  BY <1>1, <1>2
<1>5. RunsInv'
  <2>1. \A s \in RunIds : IsReady(runs'[s].batch) /\ Marked(s)' \subseteq MembersOf(runs'[s].batch)
    BY <1>1, <1>2, <1>4 DEF RunsInv
  <2>2. \A q \in Requests : requests'[q].pc \in {"coding", "coded"} => requests'[q] = requests[q]
    BY DEF Finishing, IdleReview
  <2> QED BY <1>1, <1>4, <2>1, <2>2 DEF RunsInv, Finishing, IsReady, MembersOf
<1>6. OpeningInv'
  <2>1. \A q \in Requests : requests'[q].pc = "opening" => requests'[q] = requests[q]
    BY DEF Finishing, IdleReview
  <2>2. OneReviewPerReviewer'
    BY <1>1, <1>4 DEF OpeningInv, OneReviewPerReviewer
  <2> QED BY <1>1, <1>4, <2>1, <2>2 DEF OpeningInv, IsReady
<1>7. EarnedInv'
  <2>1. ASSUME NEW s \in RunIds
        PROVE  /\ runs'[s].count <= Cardinality(Marked(s)')
               /\ runs'[s].status = "COMPLETED" /\ ~runs'[s].closed =>
                     MembersOf(runs[s].batch)' \subseteq Marked(s)' /\ NotStarted(s)' = 0
    <3>1. NotStarted(s)' = batch'[runs'[s].batch].count - Cardinality(Marked(s)')
      BY DEF NotStarted, Marked
    <3>2. CASE s = r
      <4>1. row.batch \in Batches /\ batch[row.batch].count \in Nat
        BY DEF RunRows, BuildInv, BatchRows
      <4>2. runs'[s] = row /\ Marked(s)' = marked
        BY <1>1, <1>2, <3>2
      <4>3. Cardinality(marked) \in Nat
        BY DocumentSets
      <4> QED BY <3>1, <4>1, <4>2, <4>3 DEF MembersOf
    <3>3. CASE s # r
      <4>1. runs'[s] = runs[s] /\ Marked(s)' = Marked(s)
        BY <1>1, <1>2, <3>3
      <4>2. /\ runs[s].count <= Cardinality(Marked(s))
            /\ runs[s].status = "COMPLETED" /\ ~runs[s].closed =>
                  MembersOf(runs[s].batch) \subseteq Marked(s) /\ NotStarted(s) = 0
        BY DEF EarnedInv, CompletionIsEarned, Marked
      <4>3. NotStarted(s) = batch[runs[s].batch].count - Cardinality(Marked(s))
        BY DEF NotStarted, Marked
      <4> QED BY <3>1, <4>1, <4>2, <4>3 DEF MembersOf
    <3> QED BY <3>2, <3>3
  <2>2. CompletionIsEarned'
    BY <1>1, <2>1 DEF CompletionIsEarned, Marked
  <2>3. \A q \in Requests : requests'[q].pc = "coded" => requests'[q] = requests[q]
    BY DEF Finishing, IdleReview
  <2>4. ASSUME NEW q \in Requests, requests'[q].pc = "coded"
        PROVE  requests'[q].count <= Cardinality(Marked(requests[q].run)' \cup {requests'[q].doc})
    <3> DEFINE before == Marked(requests[q].run) \cup {requests[q].doc}
               after == Marked(requests[q].run)' \cup {requests[q].doc}
    <3>1. requests'[q] = requests[q] /\ requests[q].run \in RunIds
      BY <2>3, <2>4 DEF RunsInv
    <3>2. requests[q].doc \in MatterDocs /\ requests[q].count \in Nat
      BY <2>4, <3>1 DEF RunsInv, ReviewRequests
    <3>3. before \subseteq after /\ after \subseteq MatterDocs
      BY <1>4, <3>1, <3>2 DEF Marked
    <3>4. /\ Cardinality(before) <= Cardinality(after)
          /\ Cardinality(before) \in Nat /\ Cardinality(after) \in Nat
      <4> HIDE DEF before, after
      <4> QED BY <3>3, DocumentSets
    <3>5. requests[q].count <= Cardinality(before)
      BY <2>4, <3>1 DEF EarnedInv
    <3>6. requests'[q].count <= Cardinality(after)
      <4> HIDE DEF before, after
      <4> QED BY <3>1, <3>2, <3>4, <3>5
    <3> QED BY <3>1, <3>6
  <2> QED BY <2>2, <2>4 DEF EarnedInv
<1> QED BY <1>3, <1>5, <1>6, <1>7

\* A step of one request that is not at its end, while the runs and the batches stay.
LEMMA RequestMoves ==
  ASSUME ReviewInv, UNCHANGED <<documents, batch, runs>>, NEW q \in Requests,
         NEW request \in ReviewRequests, requests' = [requests EXCEPT ![q] = request],
         request.pc \in {"coding", "coded"},
         request.run \in RunIds, request.doc \in MembersOf(runs[request.run].batch),
         request.pc = "coded" =>
            request.count <= Cardinality(Marked(request.run) \cup {request.doc})
  PROVE  ReviewInv'
<1> USE DEF ReviewInv
<1>1. requests'[q] = request /\ \A p \in Requests \ {q} : requests'[p] = requests[p]
  BY DEF RunsInv
<1>2. BuildInv'
  BY DEF BuildInv
<1>3. \A r : Marked(r)' = Marked(r) /\ NotStarted(r)' = NotStarted(r)
  BY DEF Marked, NotStarted
<1>4. RunsInv'
  BY <1>1, <1>3 DEF RunsInv, RunIds, IsReady, MembersOf
<1>5. OpeningInv'
  BY <1>1 DEF OpeningInv, OneReviewPerReviewer, RunIds, IsReady
<1>6. EarnedInv'
  BY <1>1, <1>3 DEF EarnedInv, CompletionIsEarned, RunIds, MembersOf, Marked
<1> QED BY <1>2, <1>4, <1>5, <1>6

\* An assignment changes nothing else of a batch.
LEMMA AssignmentBuilds ==
  ASSUME BuildInv, NEW b \in Batches, NEW user \in Reviewers \cup {Nobody},
         batch' = [batch EXCEPT ![b].assigned = user], documents' = documents
  PROVE  BuildInv' /\ Frozen
<1> DEFINE row == [batch[b] EXCEPT !.assigned = user]
<1>1. batch[b] \in BatchRows
  BY DEF BuildInv
<1>2. /\ row.count = batch[b].count /\ row.members = batch[b].members
      /\ row.status = batch[b].status /\ row.build = batch[b].build
      /\ row.attempts = batch[b].attempts
  BY <1>1 DEF BatchRows
<1>3. row \in BatchRows
  BY <1>1 DEF BatchRows
<1>4. batch' = [batch EXCEPT ![b] = row]
  BY DEF BuildInv
<1> HIDE DEF row
<1>5. /\ row.count = Len(row.members)
      /\ row.build = "materialize" => row.attempts < MaxBuildAttempts
      /\ IsReady(b) => row.status = "READY" /\ row.members = batch[b].members
  BY <1>2 DEF BuildInv, IsReady
<1> QED BY <1>3, <1>4, <1>5, RowReplaced

\* A start takes the lock that no other start holds, and sees every review of its user.
LEMMA OpenReviewKeeps ==
  ASSUME ReviewInv, NEW q \in Requests, NEW b \in Batches, NEW user \in Reviewers,
         OpenReview(q, b, user)
  PROVE  ReviewInv'
<1> USE DEF ReviewInv
<1> DEFINE found == ReviewRuns(b, user, "RUNNING") \cup ReviewRuns(b, user, "COMPLETED") # {}
           request == [pc |-> "opening", batch |-> b, user |-> user, found |-> found]
<1>1. /\ requests' = [requests EXCEPT ![q] = request] /\ UNCHANGED <<documents, batch, runs>>
      /\ IsReady(b) /\ ~BatchLocked(b)
  BY DEF OpenReview
<1>2. request \in ReviewRequests
  BY DEF ReviewRequests
<1>3. ~found => ~\E r \in RunIds : runs[r].opened /\ runs[r].batch = b /\ runs[r].user = user
  <2> SUFFICES ASSUME NEW r \in RunIds, runs[r].opened, runs[r].batch = b, runs[r].user = user
               PROVE  found
    OBVIOUS
  <2>1. runs[r].type = "HUMAN" /\ runs[r].purpose = "REVIEW"
    BY DEF OpeningInv
  <2>2. runs[r].status \in {"RUNNING", "COMPLETED"}
    BY RunFields DEF RunRows
  <2> QED BY <2>1, <2>2 DEF ReviewRuns
<1> HIDE DEF found
<1>4. requests'[q] = request /\ \A p \in Requests \ {q} : requests'[p] = requests[p]
  BY <1>1 DEF RunsInv
<1>5. BuildInv'
  BY <1>1 DEF BuildInv
<1>6. RunsInv'
  BY <1>1, <1>2, <1>4 DEF RunsInv, RunIds, IsReady, MembersOf, Marked
<1>7. OpeningInv'
  <2>1. \A p \in Requests \ {q} : requests[p].pc = "opening" => requests[p].batch # b
    BY <1>1 DEF BatchLocked
  <2>2. OneReviewPerReviewer'
    BY <1>1 DEF OpeningInv, OneReviewPerReviewer, RunIds
  <2> QED BY <1>1, <1>3, <1>4, <2>1, <2>2 DEF OpeningInv, RunIds, IsReady
<1>8. EarnedInv'
  BY <1>1, <1>4 DEF EarnedInv, CompletionIsEarned, NotStarted, RunIds, MembersOf, Marked
<1> QED BY <1>5, <1>6, <1>7, <1>8

\* The row of a new run.
LEMMA NewRunRow ==
  ASSUME NEW b \in Batches, NEW type \in {"HUMAN", "AGENT"}, NEW user \in Reviewers \cup {Nobody},
         NEW purpose \in Purposes \cup {"REVIEW"}, NEW opened \in BOOLEAN
  PROVE  /\ NewRun(b, type, user, purpose, opened) \in RunRows
         /\ NewRun(b, type, user, purpose, opened).progress = [d \in MatterDocs |-> "NOT_STARTED"]
  BY DEF NewRun, RunRows, DocumentStatus

\* The run that a start creates is the first opened review of its user.
LEMMA CommitReviewKeeps ==
  ASSUME ReviewInv, NEW q \in Requests, CommitReview(q)
  PROVE  ReviewInv'
<1> USE DEF ReviewInv
<1> DEFINE b == requests[q].batch
           user == requests[q].user
           assigned == IF batch[b].assigned = Nobody THEN user ELSE batch[b].assigned
           row == NewRun(b, "HUMAN", user, "REVIEW", TRUE)
<1>1. /\ requests[q].pc = "opening" /\ Answer(q) /\ documents' = documents
      /\ batch' = [batch EXCEPT ![b].assigned = assigned]
      /\ runs' = IF requests[q].found THEN runs ELSE Append(runs, row)
  BY DEF CommitReview, BuildInv
<1>2. b \in Batches /\ user \in Reviewers
  BY <1>1 DEF RunsInv, ReviewRequests
<1>3. assigned \in Reviewers \cup {Nobody}
  <2>1. batch[b] \in BatchRows
    BY <1>2 DEF BuildInv
  <2> QED BY <1>2, <2>1 DEF BatchRows
<1>4. BuildInv' /\ Frozen
  <2> HIDE DEF assigned
  <2> QED BY <1>1, <1>2, <1>3, AssignmentBuilds
<1>5. Finishing
  BY <1>1, AnswerFinishes
<1>6. CASE requests[q].found
  BY <1>1, <1>4, <1>5, <1>6, RunsStay
<1>7. CASE ~requests[q].found
  <2>1. PICK n \in Nat : n = Len(runs)
    BY DEF RunsInv
  <2>2. /\ row \in RunRows /\ row.progress = [d \in MatterDocs |-> "NOT_STARTED"]
        /\ row.batch = b /\ row.user = user /\ row.status = "RUNNING" /\ row.count = 0
        /\ row.opened /\ row.type = "HUMAN" /\ row.purpose = "REVIEW"
    BY <1>2, NewRunRow DEF NewRun
  <2>3. IsReady(b)
    BY <1>1 DEF OpeningInv
  <2> HIDE DEF row
  <2>4. runs' = Append(runs, row)
    BY <1>1, <1>7
  <2>5. /\ RunsInv' /\ EarnedInv'
        /\ RunIds = 1..n /\ RunIds' = 1..(n + 1)
        /\ \A r \in RunIds : runs'[r] = runs[r]
        /\ runs'[n + 1] = row
    BY <1>4, <1>5, <2>1, <2>2, <2>3, <2>4, RunCreated
  <2>6. \A r \in RunIds' : r \in RunIds \/ r = n + 1
    BY <2>1, <2>5
  <2>7. \A r \in RunIds : ~(runs[r].opened /\ runs[r].batch = b /\ runs[r].user = user)
    BY <1>1, <1>7 DEF OpeningInv
  <2>8. OneReviewPerReviewer'
    BY <2>2, <2>5, <2>6, <2>7 DEF OpeningInv, OneReviewPerReviewer
  <2>9. ASSUME NEW p \in Requests, requests'[p].pc = "opening"
        PROVE  /\ requests'[p] = requests[p] /\ requests[p].batch \in Batches
               /\ requests[p].batch # b
    <3>1. requests'[p] = requests[p] /\ p # q
      BY <1>1, <2>9 DEF Answer, RunsInv, IdleReview
    <3>2. requests[p].batch \in Batches
      BY <2>9, <3>1 DEF RunsInv, ReviewRequests
    <3> QED BY <1>1, <2>9, <3>1, <3>2 DEF OpeningInv
  <2>10. \A p \in Requests : requests'[p].pc = "opening" => batch'[requests'[p].batch].status = "READY"
    BY <1>4, <2>9 DEF OpeningInv, Frozen, IsReady
  <2>11. OpeningInv'
    <3>1. \A r \in RunIds' : runs'[r].opened => runs'[r].type = "HUMAN" /\ runs'[r].purpose = "REVIEW"
      BY <2>2, <2>5, <2>6 DEF OpeningInv
    <3>2. \A p \in Requests : requests'[p].pc = "opening" =>
              \A o \in Requests :
                  requests'[o].pc = "opening" /\ requests'[o].batch = requests'[p].batch => o = p
      BY <2>9 DEF OpeningInv
    <3>3. ASSUME NEW p \in Requests, requests'[p].pc = "opening", ~requests'[p].found,
                 NEW r \in RunIds', runs'[r].opened, runs'[r].batch = requests'[p].batch,
                 runs'[r].user = requests'[p].user
          PROVE  FALSE
      <4>1. requests'[p] = requests[p] /\ requests[p].batch # b
        BY <2>9, <3>3
      <4>2. r \in RunIds /\ runs'[r] = runs[r]
        BY <2>2, <2>5, <2>6, <3>3, <4>1
      <4> QED BY <3>3, <4>1, <4>2 DEF OpeningInv
    <3> QED BY <2>8, <2>10, <3>1, <3>2, <3>3 DEF OpeningInv, IsReady
  <2> QED BY <1>4, <2>5, <2>11
<1> QED BY <1>6, <1>7

\* A user's assignment of a batch.
LEMMA UpdateAssignmentKeeps ==
  ASSUME ReviewInv, NEW b \in Batches, NEW user \in Reviewers \cup {Nobody}, UpdateAssignment(b, user)
  PROVE  ReviewInv'
<1>1. BuildInv' /\ Frozen
  BY AssignmentBuilds DEF UpdateAssignment, ReviewInv
<1>2. Finishing
  BY DEF UpdateAssignment, ReviewInv, RunsInv, Finishing
<1> QED BY <1>1, <1>2, RunsStay DEF UpdateAssignment

\* A run that is created directly is not an opened review.
LEMMA CreateRunKeeps ==
  ASSUME ReviewInv, NEW b \in Batches, NEW type \in {"HUMAN", "AGENT"}, NEW user \in Reviewers,
         NEW purpose \in Purposes, CreateRun(b, type, user, purpose)
  PROVE  ReviewInv'
<1> USE DEF ReviewInv
<1> DEFINE row == NewRun(b, type, IF type = "HUMAN" THEN user ELSE Nobody, purpose, FALSE)
<1>1. PICK n \in Nat : n = Len(runs)
  BY DEF RunsInv
<1>2. /\ runs' = Append(runs, row) /\ UNCHANGED <<documents, batch, requests>> /\ IsReady(b)
  BY DEF CreateRun
<1>3. /\ row \in RunRows /\ row.progress = [d \in MatterDocs |-> "NOT_STARTED"]
      /\ row.batch = b /\ row.status = "RUNNING" /\ row.count = 0 /\ ~row.opened
  BY NewRunRow DEF NewRun
<1> HIDE DEF row
<1>4. BuildInv' /\ Frozen /\ Finishing
  BY <1>2 DEF BuildInv, Frozen, RunsInv, Finishing, IsReady
<1>5. /\ RunsInv' /\ EarnedInv'
      /\ RunIds = 1..n /\ RunIds' = 1..(n + 1)
      /\ \A r \in RunIds : runs'[r] = runs[r]
      /\ runs'[n + 1] = row
  BY <1>1, <1>2, <1>3, <1>4, RunCreated
<1>6. \A r \in RunIds' : r \in RunIds \/ r = n + 1
  BY <1>1, <1>5
<1>7. \A r \in RunIds' : runs'[r].opened => r \in RunIds /\ runs'[r] = runs[r]
  BY <1>3, <1>5, <1>6
<1>8. OneReviewPerReviewer'
  BY <1>7 DEF OpeningInv, OneReviewPerReviewer
<1>9. OpeningInv'
  <2>1. \A s \in RunIds' : runs'[s].opened => runs'[s].type = "HUMAN" /\ runs'[s].purpose = "REVIEW"
    BY <1>7 DEF OpeningInv
  <2>2. ASSUME NEW p \in Requests, requests'[p].pc = "opening"
        PROVE  /\ IsReady(requests[p].batch)'
               /\ \A o \in Requests :
                     requests'[o].pc = "opening" /\ requests'[o].batch = requests'[p].batch => o = p
               /\ ~requests'[p].found =>
                     ~\E s \in RunIds' : /\ runs'[s].opened /\ runs'[s].batch = requests'[p].batch
                                         /\ runs'[s].user = requests'[p].user
    <3>1. requests' = requests /\ batch' = batch
      BY <1>2
    <3>2. /\ IsReady(requests[p].batch)
          /\ \A o \in Requests :
                requests[o].pc = "opening" /\ requests[o].batch = requests[p].batch => o = p
          /\ ~requests[p].found =>
                ~\E s \in RunIds : /\ runs[s].opened /\ runs[s].batch = requests[p].batch
                                   /\ runs[s].user = requests[p].user
      BY <2>2, <3>1 DEF OpeningInv
    <3>3. IsReady(requests[p].batch)'
      BY <3>1, <3>2 DEF IsReady
    <3>4. ASSUME ~requests'[p].found, NEW s \in RunIds', runs'[s].opened,
                 runs'[s].batch = requests'[p].batch, runs'[s].user = requests'[p].user
          PROVE  FALSE
      <4>1. s \in RunIds /\ runs'[s] = runs[s]
        BY <1>7, <3>4
      <4> QED BY <3>1, <3>2, <3>4, <4>1
    <3> QED BY <3>1, <3>2, <3>3, <3>4
  <2> QED BY <1>8, <2>1, <2>2 DEF OpeningInv
<1> QED BY <1>4, <1>5, <1>9

\* A save or a skip reads a run and one of its documents.
LEMMA BeginCodingKeeps ==
  ASSUME ReviewInv, NEW q \in Requests, NEW r \in RunIds, NEW user \in Reviewers,
         NEW d \in MatterDocs, NEW value \in CodedValues \cup {NoValue}, NEW mark \in Processed,
         BeginCoding(q, r, user, d, mark, value)
  PROVE  ReviewInv'
<1> DEFINE request ==
        [pc |-> "coding", run |-> r, doc |-> d, mark |-> mark, value |-> value,
         fresh |-> runs[r].progress[d] = "NOT_STARTED", old |-> runs[r].values[d],
         seen |-> runs[r].count, count |-> 0, keeps |-> mark = "SKIPPED"]
<1>1. /\ UNCHANGED <<documents, batch, runs>> /\ requests' = [requests EXCEPT ![q] = request]
      /\ d \in MembersOf(runs[r].batch)
  BY DEF BeginCoding
<1>2. r \in Nat /\ runs[r].count \in Nat /\ runs[r].values[d] \in CodedValues \cup {NoValue}
  <2>1. runs[r] \in RunRows /\ r \in 1..Len(runs) /\ Len(runs) \in Nat
    BY RunFields DEF ReviewInv
  <2> QED BY <2>1 DEF RunRows
<1>3. request \in ReviewRequests
  BY <1>2 DEF ReviewRequests
<1>4. request.pc = "coding" /\ request.run = r /\ request.doc = d
  OBVIOUS
<1> HIDE DEF request
<1> QED BY <1>1, <1>3, <1>4, RequestMoves

\* The statement that counts sees the committed marks and its own.
LEMMA WriteCodingKeeps ==
  ASSUME ReviewInv, NEW q \in Requests, WriteCoding(q)
  PROVE  ReviewInv'
<1> USE DEF ReviewInv
<1> DEFINE r == requests[q].run
           d == requests[q].doc
           written == [requests[q] EXCEPT !.pc = "coded", !.count = CountProcessed(r, d)]
           kept == [written EXCEPT !.keeps = TRUE]
<1>1. /\ UNCHANGED <<documents, batch, runs>> /\ requests[q].pc = "coding"
      /\ \/ requests' = [requests EXCEPT ![q] = written]
         \/ requests' = [requests EXCEPT ![q] = kept]
         \/ Answer(q)
  BY DEF WriteCoding
<1>2. CASE Answer(q)
  <2>1. BuildInv' /\ Frozen
    BY <1>1 DEF BuildInv, Frozen, IsReady
  <2>2. Finishing
    BY <1>2, AnswerFinishes
  <2> QED BY <1>1, <2>1, <2>2, RunsStay
<1>3. /\ r \in RunIds /\ d \in MembersOf(runs[r].batch) /\ d \in MatterDocs
      /\ requests[q] \in [pc : {"coding", "coded"}, run : Nat, doc : MatterDocs, mark : Processed,
                          value : CodedValues \cup {NoValue}, fresh : BOOLEAN,
                          old : CodedValues \cup {NoValue}, seen : Nat, count : Nat,
                          keeps : BOOLEAN]
  BY <1>1 DEF RunsInv, ReviewRequests
<1>4. CountProcessed(r, d) = Cardinality(Marked(r) \cup {d})
  <2>1. {e \in MatterDocs : e = d \/ runs[r].progress[e] \in Processed} = Marked(r) \cup {d}
    BY <1>3 DEF Marked
  <2> QED BY <2>1 DEF CountProcessed
<1>5. CountProcessed(r, d) \in Nat
  <2>1. Marked(r) \cup {d} \subseteq MatterDocs
    BY <1>3 DEF Marked
  <2> QED BY <1>4, <2>1, DocumentSets
<1>6. ASSUME NEW request \in {written, kept}
      PROVE  /\ request \in ReviewRequests
             /\ request.pc = "coded" /\ request.run = r /\ request.doc = d
             /\ request.count = Cardinality(Marked(r) \cup {d})
  <2>1. written \in ReviewRequests /\ kept \in ReviewRequests
    BY <1>3, <1>5 DEF ReviewRequests
  <2> QED BY <1>3, <1>4, <2>1
<1> HIDE DEF written, kept
<1>7. ASSUME NEW request \in {written, kept}, requests' = [requests EXCEPT ![q] = request]
      PROVE  ReviewInv'
  <2>1. request.count <= Cardinality(Marked(request.run) \cup {request.doc})
    <3>1. Marked(request.run) \cup {request.doc} = Marked(r) \cup {d}
      BY <1>6
    <3>2. request.count = Cardinality(Marked(r) \cup {d}) /\ Cardinality(Marked(r) \cup {d}) \in Nat
      BY <1>4, <1>5, <1>6
    <3> QED BY <3>1, <3>2
  <2> QED BY <1>1, <1>3, <1>6, <1>7, <2>1, RequestMoves
<1> QED BY <1>1, <1>2, <1>7

\* The commit marks the document; it completes the run only when all are marked.
LEMMA CommitCodingKeeps ==
  ASSUME ReviewInv, NEW q \in Requests, CommitCoding(q)
  PROVE  ReviewInv'
<1> USE DEF ReviewInv
<1> DEFINE r == requests[q].run
           d == requests[q].doc
           n == requests[q].count
           progress == [runs[r].progress EXCEPT ![d] = requests[q].mark]
           values == [runs[r].values EXCEPT ![d] = IF requests[q].keeps THEN @ ELSE requests[q].value]
           count == IF n = requests[q].seen THEN runs[r].count ELSE n
           status == IF n >= batch[runs[r].batch].count THEN "COMPLETED" ELSE runs[r].status
           row == [runs[r] EXCEPT !.progress = progress, !.values = values,
                                  !.count = count, !.status = status]
           marked == {e \in MatterDocs : row.progress[e] \in Processed}
<1>1. /\ UNCHANGED <<documents, batch>> /\ requests[q].pc = "coded" /\ Answer(q)
  BY DEF CommitCoding
<1>2. /\ r \in RunIds /\ d \in MembersOf(runs[r].batch) /\ d \in MatterDocs
      /\ n \in Nat /\ requests[q].mark \in Processed
      /\ requests[q].value \in CodedValues \cup {NoValue}
      /\ n <= Cardinality(Marked(r) \cup {d})
  BY <1>1 DEF RunsInv, ReviewRequests, EarnedInv
<1>3. runs[r] \in RunRows /\ Marked(r) \subseteq MembersOf(runs[r].batch)
  BY <1>2, RunFields DEF RunsInv
<1>4. runs' = [runs EXCEPT ![r] = row]
  <2>1. runs \in Seq(RunRows)
    BY DEF RunsInv
  <2> QED BY ZenonT(60), <1>2, <1>3, <2>1 DEF CommitCoding, RunIds, RunRows
<1>5. /\ progress \in [MatterDocs -> DocumentStatus]
      /\ values \in [MatterDocs -> CodedValues \cup {NoValue}]
      /\ count \in Nat /\ status \in {"RUNNING", "COMPLETED"}
  BY <1>2, <1>3 DEF RunRows, DocumentStatus, Processed
<1>6. marked = Marked(r) \cup {d}
  <2>1. row.progress = progress
    BY <1>3 DEF RunRows
  <2> QED BY <1>2, <1>3, <2>1 DEF Marked, RunRows
<1> HIDE DEF progress, values, count, status
<1>7. row \in RunRows
  BY <1>3, <1>5 DEF RunRows
<1>8. /\ row.batch = runs[r].batch /\ row.user = runs[r].user /\ row.opened = runs[r].opened
      /\ row.type = runs[r].type /\ row.purpose = runs[r].purpose /\ row.closed = runs[r].closed
      /\ row.count = count /\ row.status = status
  BY <1>3 DEF RunRows
<1> DEFINE chosen == MembersOf(runs[r].batch)
<1>9. /\ Marked(r) \subseteq marked /\ marked \subseteq chosen /\ marked \subseteq MatterDocs
  BY <1>2, <1>3, <1>6 DEF Marked
<1>10. /\ IsFiniteSet(chosen) /\ Cardinality(chosen) \in Nat
       /\ Cardinality(chosen) <= batch[runs[r].batch].count
       /\ batch[runs[r].batch].count \in Nat /\ chosen \subseteq MatterDocs
  <2>1. runs[r].batch \in Batches
    BY <1>3 DEF RunRows
  <2>2. /\ batch[runs[r].batch].members \in Seq(MatterDocs)
        /\ batch[runs[r].batch].count = Len(batch[runs[r].batch].members)
    BY <2>1 DEF BuildInv, BatchRows
  <2>3. chosen \subseteq MatterDocs
    <3>1. PICK s \in Seq(MatterDocs) : s = batch[runs[r].batch].members
      BY <2>2
    <3>2. ToSet(s) \subseteq MatterDocs
      BY DEF ToSet
    <3> QED BY <3>1, <3>2 DEF MembersOf
  <2> QED BY SMTT(30), <2>2, <2>3, ElementsBounded DEF MembersOf
<1>11. /\ Cardinality(marked) \in Nat /\ Cardinality(Marked(r)) <= Cardinality(marked)
       /\ Cardinality(marked) <= Cardinality(chosen)
       /\ Cardinality(Marked(r)) \in Nat
       /\ Cardinality(marked) = Cardinality(chosen) => marked = chosen
  <2> HIDE DEF marked, chosen
  <2> QED BY <1>9, <1>10, DocumentSets
<1>12. n <= Cardinality(marked)
  BY <1>2, <1>6
<1>13. row.count <= Cardinality(marked)
  <2>1. runs[r].count <= Cardinality(Marked(r)) /\ runs[r].count \in Nat
    BY <1>2, <1>3 DEF EarnedInv, CompletionIsEarned, Marked, RunRows
  <2> HIDE DEF marked, row
  <2> QED BY <1>2, <1>8, <1>11, <1>12, <2>1 DEF count
<1>14. ASSUME row.status = "COMPLETED", ~row.closed
       PROVE  chosen \subseteq marked /\ batch[runs[r].batch].count = Cardinality(marked)
  <2> HIDE DEF marked, row, chosen
  <2>1. CASE n >= batch[runs[r].batch].count
    BY <1>2, <1>10, <1>11, <1>12, <2>1
  <2>2. CASE ~(n >= batch[runs[r].batch].count)
    <3>1. runs[r].status = "COMPLETED" /\ ~runs[r].closed
      BY <1>8, <1>14, <2>2 DEF status
    <3>2. chosen \subseteq Marked(r) /\ NotStarted(r) = 0
      BY <1>2, <3>1 DEF EarnedInv, CompletionIsEarned, Marked, chosen
    <3>3. batch[runs[r].batch].count = Cardinality(Marked(r))
      <4>1. NotStarted(r) = batch[runs[r].batch].count - Cardinality(Marked(r))
        BY DEF NotStarted, Marked
      <4> QED BY <1>10, <1>11, <3>2, <4>1
    <3> QED BY <1>9, <1>10, <1>11, <3>2, <3>3
  <2> QED BY <2>1, <2>2
<1>15. Finishing
  BY <1>1, AnswerFinishes
<1> HIDE DEF row
<1> QED BY <1>1, <1>2, <1>4, <1>7, <1>8, <1>9, <1>13, <1>14, <1>15, RunUpdated

\* A run that its reviewer ends is not one that completed by itself.
LEMMA CompleteRunKeeps ==
  ASSUME ReviewInv, NEW r \in RunIds, NEW user \in Reviewers, CompleteRun(r, user)
  PROVE  ReviewInv'
<1> USE DEF ReviewInv
<1> DEFINE row == [runs[r] EXCEPT !.status = "COMPLETED", !.closed = TRUE]
           marked == {e \in MatterDocs : row.progress[e] \in Processed}
<1>1. /\ runs[r] \in RunRows /\ Marked(r) \subseteq MembersOf(runs[r].batch)
      /\ runs[r].count <= Cardinality(Marked(r))
  BY RunFields DEF RunsInv, EarnedInv, CompletionIsEarned, Marked
<1>2. row \in RunRows
  BY <1>1 DEF RunRows
<1>3. /\ row.batch = runs[r].batch /\ row.user = runs[r].user /\ row.opened = runs[r].opened
      /\ row.type = runs[r].type /\ row.purpose = runs[r].purpose /\ row.closed
      /\ row.count = runs[r].count /\ row.progress = runs[r].progress
  BY <1>1 DEF RunRows
<1>4. marked = Marked(r)
  BY <1>3 DEF Marked
<1>5. runs' = [runs EXCEPT ![r] = row] /\ UNCHANGED <<documents, batch, requests>>
  <2>1. runs \in Seq(RunRows)
    BY DEF RunsInv
  <2> QED BY <2>1 DEF CompleteRun, RunIds
<1>6. Finishing
  BY <1>5 DEF RunsInv, Finishing
<1> HIDE DEF row
<1> QED BY <1>1, <1>2, <1>3, <1>4, <1>5, <1>6, RunUpdated

\* The system starts without runs and requests.
LEMMA ReviewStarts == ASSUME ReviewInit PROVE ReviewInv
<1>1. BuildInv
  BY BuildStarts DEF ReviewInit
<1>2. runs = <<>> /\ RunIds = {} /\ requests = [q \in Requests |-> IdleReview]
  BY DEF ReviewInit, RunIds
<1>3. RunsInv
  BY <1>2 DEF RunsInv, ReviewRequests, IdleReview
<1>4. OpeningInv /\ EarnedInv
  BY <1>2 DEF OpeningInv, EarnedInv, OneReviewPerReviewer, CompletionIsEarned, IdleReview
<1> QED BY <1>1, <1>3, <1>4 DEF ReviewInv

\* Every step keeps the invariant, and what READY batches hold.
LEMMA ReviewSteps ==
  ASSUME ReviewInv, [ReviewNext]_reviewVars
  PROVE  ReviewInv' /\ [Frozen]_buildVars
<1>1. CASE UNCHANGED reviewVars
  <2>1. BuildInv' /\ Frozen /\ Finishing
    BY <1>1 DEF reviewVars, ReviewInv, BuildInv, Frozen, RunsInv, Finishing, IsReady
  <2> QED BY <1>1, <2>1, RunsStay DEF reviewVars
<1>2. CASE BuildNext /\ UNCHANGED <<runs, requests>>
  <2>1. BuildInv' /\ Frozen
    BY <1>2, BuildSteps DEF ReviewInv
  <2>2. Finishing
    BY <1>2 DEF ReviewInv, RunsInv, Finishing
  <2> QED BY <1>2, <2>1, <2>2, RunsStay
<1>3. CASE CodingNext
  <2>1. ReviewInv'
    BY <1>3, OpenReviewKeeps, CreateRunKeeps, BeginCodingKeeps, UpdateAssignmentKeeps,
       CommitReviewKeeps, WriteCodingKeeps, CommitCodingKeeps, CompleteRunKeeps DEF CodingNext
  <2>2. [Frozen]_buildVars
    <3>1. CASE UNCHANGED buildVars
      BY <3>1
    <3>2. ASSUME NEW b \in Batches, NEW user, UpdateAssignment(b, user)
          PROVE  Frozen
      BY <3>2 DEF UpdateAssignment, Frozen, IsReady, ReviewInv, BuildInv, BatchRows
    <3>3. ASSUME NEW q \in Requests, CommitReview(q)
          PROVE  Frozen
      BY <3>3 DEF CommitReview, Frozen, IsReady, ReviewInv, BuildInv, BatchRows
    <3>4. \/ UNCHANGED buildVars
          \/ \E b \in Batches, user \in Reviewers \cup {Nobody} : UpdateAssignment(b, user)
          \/ \E q \in Requests : CommitReview(q)
      <4>1. \A q, b, user : OpenReview(q, b, user) => UNCHANGED buildVars
        BY DEF OpenReview, buildVars
      <4>2. \A b, type, user, purpose : CreateRun(b, type, user, purpose) => UNCHANGED buildVars
        BY DEF CreateRun, buildVars
      <4>3. \A q, r, user, d, mark, value :
                BeginCoding(q, r, user, d, mark, value) => UNCHANGED buildVars
        BY DEF BeginCoding, buildVars
      <4>4. \A q : WriteCoding(q) \/ CommitCoding(q) => UNCHANGED buildVars
        BY DEF WriteCoding, CommitCoding, buildVars
      <4>5. \A r, user : CompleteRun(r, user) => UNCHANGED buildVars
        BY DEF CompleteRun, buildVars
      <4> QED BY <1>3, <4>1, <4>2, <4>3, <4>4, <4>5 DEF CodingNext
    <3> QED BY <3>1, <3>2, <3>3, <3>4
  <2> QED BY <2>1, <2>2
<1> QED BY <1>1, <1>2, <1>3 DEF ReviewNext

\* However many requests open a batch at the same time, each user gets one review of it.
THEOREM ReviewsUnique == ReviewSpec => []OneReviewPerReviewer
<1>1. ReviewInit => ReviewInv
  BY ReviewStarts
<1>2. ReviewInv /\ [ReviewNext]_reviewVars => ReviewInv'
  BY ReviewSteps
<1>3. ReviewInv => OneReviewPerReviewer
  BY DEF ReviewInv, OpeningInv
<1> QED BY <1>1, <1>2, <1>3, PTL DEF ReviewSpec

\* A run that completes by itself has each document of its batch saved or skipped, and no
\* count runs ahead of the marks, for any number of saves in flight.
THEOREM CompletionEarned == ReviewSpec => []CompletionIsEarned
<1>1. ReviewInit => ReviewInv
  BY ReviewStarts
<1>2. ReviewInv /\ [ReviewNext]_reviewVars => ReviewInv'
  BY ReviewSteps
<1>3. ReviewInv => CompletionIsEarned
  BY DEF ReviewInv, EarnedInv
<1> QED BY <1>1, <1>2, <1>3, PTL DEF ReviewSpec

\* The documents of a READY batch never change, however often its step is executed, whatever
\* is added to the matter and whoever the batch is assigned to.
THEOREM MembersFrozen == ReviewSpec => MembershipFrozen
<1>1. ReviewInit => ReviewInv
  BY ReviewStarts
<1>2. ReviewInv /\ [ReviewNext]_reviewVars => ReviewInv'
  BY ReviewSteps
<1>3. ReviewInv /\ [ReviewNext]_reviewVars =>
        [\A b \in Batches : IsReady(b) => /\ batch'[b].status = "READY"
                                          /\ batch'[b].members = batch[b].members]_buildVars
  BY ReviewSteps DEF Frozen
<1> QED BY <1>1, <1>2, <1>3, PTL DEF ReviewSpec, MembershipFrozen

\* The rows of batches, runs and requests have the types that the model declares.
THEOREM ReviewTyped == ReviewSpec => []ReviewTypeOK
<1>1. ReviewInit => ReviewInv
  BY ReviewStarts
<1>2. ReviewInv /\ [ReviewNext]_reviewVars => ReviewInv'
  BY ReviewSteps
<1>3. ReviewInv => ReviewTypeOK
  <2> SUFFICES ASSUME ReviewInv
               PROVE  ReviewTypeOK
    OBVIOUS
  <2>1. BuildTypeOK
    <3>1. \A b \in Batches : batch[b] \in BatchRows
      BY DEF ReviewInv, BuildInv
    <3>2. documents \in Seq(MatterDocs)
      BY DEF ReviewInv, BuildInv
    <3> QED BY <3>1, <3>2 DEF BuildTypeOK, BatchRows
  <2>2. \A r \in RunIds : runs[r] \in RunRows
    BY RunFields DEF ReviewInv
  <2>3. \A q \in Requests : requests[q].pc \in {"idle", "opening", "coding", "coded"}
    BY DEF ReviewInv, RunsInv, ReviewRequests
  <2> QED BY <2>1, <2>2, <2>3 DEF ReviewTypeOK, RunRows
<1> QED BY <1>1, <1>2, <1>3, PTL DEF ReviewSpec

-----------------------------------------------------------------------------
(* The projection of a metadata log.                                        *)

Operations == AssertionOperations \cup TargetOperations
Events == [operation : Operations, value : FieldValues \cup {NoFieldValue}, source : {"HUMAN", "AGENT"},
           target : Nat, supersedes : Nat]

\* An event names earlier ones, and what it removes was added.
EventOK(l, i) ==
    /\ l[i].target < i /\ l[i].supersedes < i
    /\ l[i].operation \in TargetOperations => l[i].target \in DOMAIN l
    /\ l[i].operation = "REMOVE" => l[l[i].target].operation = "ADD"

LogOK(l) == l \in Seq(Events) /\ \A i \in DOMAIN l : EventOK(l, i)

FieldRows == [cardinality : Cardinalities, assertion : {"IMMEDIATE", "REQUIRES_CONFIRMATION"},
              resolution : {"EXPLICIT_ONLY", "LATEST_VALID", "HUMAN_PRECEDENCE"},
              status : {"NONE", "ACTIVE", "SUSPENDED"}, known : SUBSET FieldValues,
              allowed : SUBSET FieldValues]

FieldInv ==
    /\ field \in FieldRows
    /\ field.status # "NONE" => <<field.assertion, field.resolution>> \in Policies
    /\ field.allowed \subseteq field.known

\* A command between its read of the definition and its commit: what it has written continues the
\* log, and its result is the resolution of what it will commit.
AuthorOK(a) ==
    \/ authors[a] = IdleAuthor
    \/ authors[a].pc = "read" /\ authors[a].field \in FieldRows
    \/ /\ authors[a].pc = "written"
       /\ LogOK(log \o authors[a].events) /\ authors[a].events \in Seq(Events)
       /\ \E f \in FieldRows : authors[a].result = Resolve(log \o authors[a].events, f)

\* The inductive invariant of the log and its projection.
MetadataInv ==
    /\ FieldInv /\ LogOK(log)
    /\ DOMAIN authors = Authors /\ \A a \in Authors : AuthorOK(a)
    /\ \A a \in Authors, b \in Authors : authors[a].pc = "written" /\ authors[b].pc = "written" => a = b
    /\ \/ log = <<>> /\ current = NoResolution
       \/ \E f \in FieldRows : current = Resolve(log, f)

\* What a projection shows as a value is supported by candidates that agree, the last of which is
\* its source.
LEMMA ShownAreCandidates ==
    ASSUME NEW l, LogOK(l), NEW f, Resolve(l, f).state \in {"VALUE", "CONFLICTED"},
           NEW v \in Resolve(l, f).values, NEW i \in v.support
    PROVE  i \in Candidates(l, f) /\ l[i].value = l[v.source].value /\ i <= v.source
  <1> DEFINE events == Candidates(l, f)
  <1>1. events \in SUBSET (0..Len(l)) /\ Len(l) \in Nat
    BY DEF Candidates, Eligible, Standing, LogOK
  <1>2. ASSUME NEW s \in SUBSET events, s # {}
        PROVE  Max(s) \in s /\ \A y \in s : y <= Max(s)
    <2>1. s \in SUBSET (0..Len(l))
      BY <1>1
    <2> QED  BY <1>1, <1>2, <2>1, GreatestNumber
  <1> HIDE DEF events
  <1>3. CASE v \in Grouped(l, events)
    <2>1. PICK s : /\ s \in {{x \in events : l[x].value = w} : w \in {l[x].value : x \in events}}
                   /\ v = [source |-> Max(s), support |-> s]
      BY <1>3 DEF Grouped
    <2>2. PICK w : s = {x \in events : l[x].value = w}
      BY <2>1
    <2>3. i \in s /\ s \in SUBSET events
      BY <2>1, <2>2
    <2>4. Max(s) \in s /\ \A y \in s : y <= Max(s)
      BY <1>2, <2>3
    <2> QED  BY <2>1, <2>2, <2>3, <2>4 DEF events
  <1>4. ASSUME NEW s \in SUBSET events, v \in Alone(s)
        PROVE  i \in events /\ l[i].value = l[v.source].value /\ i <= v.source
    <2>1. PICK x \in s : v = [source |-> x, support |-> {x}]
      BY <1>4 DEF Alone
    <2>2. i = x /\ v.source = x /\ x \in events /\ x \in Nat
      BY <1>1, <2>1
    <2> QED  BY <2>2
  <1>5. CASE events # {} /\ v \in Alone({Max(events)})
    <2>1. {Max(events)} \in SUBSET events
      BY <1>2, <1>5
    <2> QED  BY <1>4, <1>5, <2>1 DEF events
  <1>6. CASE events # {} /\ v \in Alone({Max(Human(l, events))})
    <2>1. Human(l, events) \in SUBSET events /\ Human(l, events) # {}
      BY <1>6 DEF Human
    <2>2. {Max(Human(l, events))} \in SUBSET events
      BY <1>2, <2>1
    <2> QED  BY <1>4, <1>6, <2>2 DEF events
  <1>7. events # {}
    BY DEF Resolve, events
  <1> QED
    BY <1>3, <1>5, <1>6, <1>7 DEF Resolve, events

\* What supports a value is active, was not rejected, removed or superseded, is confirmed if it has
\* to be, and follows every clear that counts.
LEMMA CandidatesStand ==
    ASSUME NEW l, LogOK(l), NEW f, NEW i \in Candidates(l, f)
    PROVE  /\ EffectiveStatus(l, f, i) = "ACTIVE"
           /\ \A k \in DOMAIN l : /\ l[k].operation \in {"REJECT", "REMOVE"} => l[k].target # i
                                  /\ l[k].supersedes # i
           /\ f.assertion = "REQUIRES_CONFIRMATION" =>
                  \E k \in DOMAIN l : l[k].operation = "CONFIRM" /\ l[k].target = i
           /\ \A k \in DOMAIN l :
                  (k > i /\ l[k].operation = "CLEAR" /\ f.assertion = "IMMEDIATE")
                      => \E j \in DOMAIN l : (l[j].operation = "REJECT" /\ l[j].target = k) \/ l[j].supersedes = k
  <1>1. /\ i \in DOMAIN l /\ DOMAIN l = 1..Len(l) /\ Len(l) \in Nat /\ i \in Nat \ {0}
        /\ i \notin Rejected(l) /\ i \notin Superseded(l) /\ i \notin Removed(l)
        /\ i \notin Invalidated(l, f) /\ l[i].operation \in ValueOperations
        /\ f.assertion = "IMMEDIATE" \/ i \in Confirmed(l)
    BY DEF Candidates, Eligible, Standing, LogOK
  <1>2. EffectiveStatus(l, f, i) = "ACTIVE"
    BY <1>1 DEF EffectiveStatus
  <1>3. ASSUME NEW k \in DOMAIN l
        PROVE  /\ l[k].operation \in {"REJECT", "REMOVE"} => l[k].target # i
               /\ l[k].supersedes # i
    BY <1>1 DEF Rejected, Removed, Superseded, Targets
  <1>4. ASSUME f.assertion = "REQUIRES_CONFIRMATION"
        PROVE  \E k \in DOMAIN l : l[k].operation = "CONFIRM" /\ l[k].target = i
    BY <1>1, <1>4 DEF Confirmed, Targets
  <1>5. ASSUME NEW k \in DOMAIN l, k > i, l[k].operation = "CLEAR", f.assertion = "IMMEDIATE",
               ~ \E j \in DOMAIN l : (l[j].operation = "REJECT" /\ l[j].target = k) \/ l[j].supersedes = k
        PROVE  FALSE
    <2>1. k \notin Rejected(l) /\ k \notin Superseded(l) /\ k \in Nat
      BY <1>1, <1>5 DEF Rejected, Superseded, Targets
    <2>2. k \notin Removed(l)
      BY <1>5 DEF Removed, Targets, LogOK, EventOK
    <2> DEFINE clears == {0} \cup {x \in Eligible(l, f) : l[x].operation = "CLEAR"}
    <2>3. k \in clears
      BY <1>5, <2>1, <2>2 DEF Eligible, Standing, AssertionOperations
    <2>4. clears \in SUBSET (0..Len(l)) /\ clears # {}
      BY <1>1 DEF Eligible, Standing
    <2>5. k <= Max(clears) /\ Max(clears) \in Nat
      <3>1. clears # {} /\ Len(l) \in Nat
        BY <1>1, <2>4
      <3> HIDE DEF clears
      <3>2. Max(clears) \in clears /\ \A y \in clears : y <= Max(clears)
        BY <2>4, <3>1, GreatestNumber
      <3>3. Max(clears) \in 0..Len(l)
        BY <2>4, <3>2
      <3> QED  BY <1>1, <2>3, <3>2, <3>3
    <2>6. i < LatestClear(l, f)
      BY <1>1, <1>5, <2>1, <2>5 DEF LatestClear
    <2>7. i \in Invalidated(l, f)
      BY <1>1, <2>6 DEF Invalidated
    <2> QED  BY <1>1, <2>7
  <1> QED  BY <1>2, <1>3, <1>4, <1>5

\* A log is continued by events that name events of the log.
LEMMA LogContinued ==
    ASSUME NEW l, LogOK(l), NEW events \in Seq(Events),
           \A i \in DOMAIN events :
               /\ events[i].target <= Len(l) /\ events[i].supersedes <= Len(l)
               /\ events[i].operation \in TargetOperations => events[i].target \in DOMAIN l
               /\ events[i].operation = "REMOVE" => l[events[i].target].operation = "ADD"
    PROVE  LogOK(l \o events)
  <1> DEFINE m == l \o events
  <1>1. l \in Seq(Events) /\ Len(l) \in Nat /\ Len(events) \in Nat /\ DOMAIN l = 1..Len(l)
    BY DEF LogOK
  <1>2. m \in Seq(Events) /\ Len(m) = Len(l) + Len(events) /\ DOMAIN m = 1..(Len(l) + Len(events))
    BY <1>1
  <1>3. \A i \in DOMAIN l : m[i] = l[i] /\ i \in DOMAIN m
    BY <1>1, <1>2
  <1>4. ASSUME NEW i \in DOMAIN m
        PROVE  EventOK(m, i)
    <2>1. CASE i \in DOMAIN l
      <3>1. m[i] = l[i] /\ EventOK(l, i) /\ l[i] \in Events
        BY <1>1, <1>3, <2>1 DEF LogOK
      <3>2. l[i].operation = "REMOVE" => l[i].target \in DOMAIN l
        BY <3>1 DEF EventOK, TargetOperations
      <3> HIDE DEF m
      <3> QED  BY <1>3, <3>1, <3>2 DEF EventOK
    <2>2. CASE i \notin DOMAIN l
      <3>1. PICK x \in DOMAIN events : x = i - Len(l)
        BY <1>1, <1>2, <2>2
      <3>2. m[i] = events[x] /\ i > Len(l) /\ events[x] \in Events
        BY <1>1, <1>2, <2>2, <3>1
      <3>3. events[x].target \in Nat /\ events[x].supersedes \in Nat
        BY <3>2 DEF Events
      <3>4. /\ events[x].target < i /\ events[x].supersedes < i
            /\ events[x].operation = "REMOVE" => events[x].target \in DOMAIN l
        BY <1>1, <1>2, <3>2, <3>3 DEF TargetOperations
      <3> HIDE DEF m
      <3> QED  BY <1>3, <3>2, <3>4 DEF EventOK
    <2> QED  BY <2>1, <2>2
  <1> QED  BY <1>2, <1>4 DEF LogOK

\* No definition, event or command at the start.
LEMMA MetadataBegins == MetadataInit => MetadataInv
  <1> SUFFICES ASSUME MetadataInit PROVE MetadataInv
    OBVIOUS
  <1>1. FieldInv
    BY DEF MetadataInit, FieldInv, FieldRows, NoField, Cardinalities
  <1>2. LogOK(log)
    BY DEF MetadataInit, LogOK
  <1>3. DOMAIN authors = Authors /\ \A a \in Authors : authors[a] = IdleAuthor
    BY DEF MetadataInit
  <1> QED  BY <1>1, <1>2, <1>3 DEF MetadataInit, MetadataInv, AuthorOK, IdleAuthor

\* A step of the command in slot a which commits nothing.
LEMMA AuthorMoves ==
    ASSUME MetadataInv, NEW a \in Authors, UNCHANGED <<field, log, current, redefinitions>>,
           NEW w, authors' = [authors EXCEPT ![a] = w], AuthorOK(a)',
           w.pc = "written" => DocumentFree(a)
    PROVE  MetadataInv'
  <1>1. /\ DOMAIN authors' = Authors /\ authors'[a] = w
        /\ \A b \in Authors \ {a} : authors'[b] = authors[b]
    BY DEF MetadataInv
  <1>2. ASSUME NEW b \in Authors
        PROVE  AuthorOK(b)'
    BY <1>1 DEF MetadataInv, AuthorOK
  <1>3. ASSUME NEW b \in Authors, NEW c \in Authors, authors'[b].pc = "written", authors'[c].pc = "written"
        PROVE  b = c
    BY <1>1, <1>3 DEF MetadataInv, DocumentFree
  <1> QED  BY <1>1, <1>2, <1>3 DEF MetadataInv, FieldInv

\* What is written continues the log and is resolved with it, under the lock of the document.
LEMMA WriteKeepsLog ==
    ASSUME MetadataInv, NEW a \in Authors, NEW events \in Seq(Events), LogOK(log \o events),
           Write(a, events)
    PROVE  MetadataInv'
  <1> DEFINE w == [pc |-> "written", events |-> events,
                   result |-> Resolve(log \o events, authors[a].field)]
  <1>1. /\ authors' = [authors EXCEPT ![a] = w] /\ DocumentFree(a) /\ authors[a].pc = "read"
        /\ UNCHANGED <<field, log, current, redefinitions>>
    BY DEF Write
  <1>2. authors[a].field \in FieldRows
    BY <1>1 DEF MetadataInv, AuthorOK, IdleAuthor
  <1>3. authors'[a] = w
    BY <1>1 DEF MetadataInv
  <1>4. /\ w.pc = "written" /\ w.events = events
        /\ w.result = Resolve(log \o events, authors[a].field)
    OBVIOUS
  <1> HIDE DEF w
  <1>5. \E f \in FieldRows : authors'[a].result = Resolve(log \o events, f)
    BY <1>2, <1>3, <1>4
  <1>6. AuthorOK(a)'
    BY <1>1, <1>3, <1>4, <1>5 DEF AuthorOK
  <1> QED  BY <1>1, <1>6, AuthorMoves

\* A definition is created or changed.
LEMMA FieldMoves ==
    ASSUME MetadataInv, FieldInv', UNCHANGED <<log, current, authors>>
    PROVE  MetadataInv'
  <1>1. \A a \in Authors : AuthorOK(a)'
    BY DEF MetadataInv, AuthorOK
  <1> QED  BY <1>1 DEF MetadataInv

\* The event of a request.
LEMMA AddKeepsLog ==
    ASSUME MetadataInv, NEW a \in Authors, authors[a].pc = "read",
           NEW o \in Operations, NEW v \in FieldValues \cup {NoFieldValue},
           NEW t \in 0..Len(log), NEW s \in 0..Len(log), AddEvent(a, Event(o, v, "HUMAN", t, s))
    PROVE  MetadataInv'
  <1> DEFINE e == Event(o, v, "HUMAN", t, s)
  <1>1. /\ e.operation = o /\ e.target = t /\ e.supersedes = s /\ e \in Events
    <2>1. t \in Nat /\ s \in Nat
      BY DEF MetadataInv, LogOK
    <2> QED  BY <2>1 DEF Event, Events
  <1>2. ValidEvent(authors[a].field, e) /\ Write(a, <<e>>)
    BY DEF AddEvent
  <1> HIDE DEF e
  <1>3. /\ o \in TargetOperations => t \in DOMAIN log
        /\ o = "REMOVE" => log[t].operation = "ADD"
    BY <1>1, <1>2 DEF ValidEvent, TargetOperations
  <1>4. /\ <<e>> \in Seq(Events) /\ DOMAIN <<e>> = {1} /\ <<e>>[1] = e
        /\ t <= Len(log) /\ s <= Len(log)
    BY <1>1
  <1>5. LogOK(log \o <<e>>)
    BY <1>1, <1>3, <1>4, LogContinued DEF MetadataInv
  <1> QED  BY <1>2, <1>4, <1>5, WriteKeepsLog

\* The events of a topic job.
LEMMA ApplyKeepsLog ==
    ASSUME MetadataInv, NEW a \in Authors,
           NEW values \in SetToSeqs(FieldValues) \cup {<<v>> : v \in FieldValues} \cup {<<>>},
           NEW replace \in BOOLEAN, ApplyValues(a, values, replace)
    PROVE  MetadataInv'
  <1> DEFINE clear == IF replace THEN <<Event("CLEAR", NoFieldValue, "AGENT", 0, 0)>> ELSE <<>>
             adds == [i \in 1..Len(values) |-> Event("ADD", values[i], "AGENT", 0, 0)]
             OfTopics == {x \in Events : x.operation \in {"CLEAR", "ADD"} /\ x.target = 0 /\ x.supersedes = 0}
  <1>1. values \in Seq(FieldValues)
    <2>1. SetToSeqs(FieldValues) \subseteq Seq(FieldValues)
      <3>1. Cardinality(FieldValues) \in Nat
        BY MetadataAssumption, FS_CardinalityType
      <3>2. \A n \in Nat : [1..n -> FieldValues] \subseteq Seq(FieldValues)
        OBVIOUS
      <3>3. SetToSeqs(FieldValues) \subseteq [1..Cardinality(FieldValues) -> FieldValues]
        BY DEF SetToSeqs
      <3> QED  BY <3>1, <3>2, <3>3
    <2>2. \A v \in FieldValues : <<v>> \in Seq(FieldValues)
      OBVIOUS
    <2>3. <<>> \in Seq(FieldValues)
      OBVIOUS
    <2> QED  BY <2>1, <2>2, <2>3
  <1>2. /\ Event("CLEAR", NoFieldValue, "AGENT", 0, 0) \in OfTopics
        /\ \A v \in FieldValues : Event("ADD", v, "AGENT", 0, 0) \in OfTopics
    BY DEF Event, Events, Operations, AssertionOperations, ValueOperations, TargetOperations
  <1>3. clear \in Seq(OfTopics) /\ adds \in Seq(OfTopics)
    <2>1. clear \in Seq(OfTopics)
      <3> HIDE DEF OfTopics
      <3>1. clear = <<>> \/ clear = <<Event("CLEAR", NoFieldValue, "AGENT", 0, 0)>>
        OBVIOUS
      <3>2. \A x \in OfTopics : <<x>> \in Seq(OfTopics)
        OBVIOUS
      <3>3. <<>> \in Seq(OfTopics)
        OBVIOUS
      <3> HIDE DEF clear
      <3> QED  BY <1>2, <3>1, <3>2, <3>3
    <2>2. Len(values) \in Nat /\ \A i \in 1..Len(values) : values[i] \in FieldValues
      BY <1>1
    <2>3. adds \in [1..Len(values) -> OfTopics]
      BY <1>2, <2>2
    <2> HIDE DEF adds, OfTopics
    <2>4. adds \in Seq(OfTopics)
      BY <2>2, <2>3
    <2> QED  BY <2>1, <2>4
  <1>4. Replacement(replace, values) = clear \o adds /\ Write(a, Replacement(replace, values))
    BY DEF Replacement, ApplyValues
  <1> HIDE DEF clear, adds
  <1> DEFINE events == Replacement(replace, values)
  <1>5. events \in Seq(OfTopics)
    <2> HIDE DEF OfTopics
    <2> QED  BY <1>3, <1>4
  <1> HIDE DEF events
  <1>6. events \in Seq(Events) /\ \A i \in DOMAIN events : events[i] \in OfTopics
    BY <1>5
  <1>7. \A i \in DOMAIN events :
           /\ events[i].target <= Len(log) /\ events[i].supersedes <= Len(log)
           /\ events[i].operation \notin TargetOperations
    BY <1>6 DEF TargetOperations, MetadataInv, LogOK
  <1>8. LogOK(log \o events)
    BY <1>6, <1>7, LogContinued DEF MetadataInv, TargetOperations
  <1> QED  BY <1>4, <1>6, <1>8, WriteKeepsLog DEF events

\* A commit appends what was written, and stores its resolution.
LEMMA CommitKeepsLog ==
    ASSUME MetadataInv, NEW a \in Authors, CommitEvents(a)
    PROVE  MetadataInv'
  <1>1. /\ authors[a].pc = "written" /\ log' = log \o authors[a].events /\ current' = authors[a].result
        /\ authors' = [authors EXCEPT ![a] = IdleAuthor] /\ UNCHANGED <<field, redefinitions>>
    BY DEF CommitEvents
  <1>2. LogOK(log') /\ \E f \in FieldRows : current' = Resolve(log', f)
    BY <1>1 DEF MetadataInv, AuthorOK, IdleAuthor
  <1>3. /\ DOMAIN authors' = Authors /\ authors'[a] = IdleAuthor
        /\ \A b \in Authors \ {a} : authors'[b] = authors[b] /\ authors[b].pc # "written"
    BY <1>1 DEF MetadataInv
  <1>4. ASSUME NEW b \in Authors
        PROVE  AuthorOK(b)' /\ authors'[b].pc # "written"
    BY <1>3 DEF MetadataInv, AuthorOK, IdleAuthor
  <1>5. FieldInv'
    BY <1>1 DEF MetadataInv, FieldInv
  <1> HIDE DEF Resolve, LogOK
  <1> QED  BY <1>2, <1>3, <1>4, <1>5 DEF MetadataInv

\* Every step.
LEMMA MetadataStep ==
    ASSUME MetadataInv, [MetadataNext]_metadataVars
    PROVE  MetadataInv'
  <1>1. CASE UNCHANGED metadataVars
    <2>1. FieldInv' /\ UNCHANGED <<log, current, authors>>
      BY <1>1 DEF metadataVars, MetadataInv, FieldInv
    <2> QED  BY <2>1, FieldMoves
  <1>2. ASSUME NEW c \in Cardinalities, NEW p \in Policies, CreateDefinition(c, p[1], p[2])
        PROVE  MetadataInv'
    <2>1. /\ p[1] \in {"IMMEDIATE", "REQUIRES_CONFIRMATION"}
          /\ p[2] \in {"EXPLICIT_ONLY", "LATEST_VALID", "HUMAN_PRECEDENCE"}
          /\ p = <<p[1], p[2]>>
      BY MetadataAssumption
    <2>2. FieldInv' /\ UNCHANGED <<log, current, authors>>
      BY <1>2, <2>1, MetadataAssumption DEF CreateDefinition, FieldInv, FieldRows
    <2> QED  BY <2>2, FieldMoves
  <1>3. ASSUME NEW p \in Policies, NEW s \in {"ACTIVE", "SUSPENDED"}, UpdateDefinition(p[1], p[2], s)
        PROVE  MetadataInv'
    <2>1. /\ p[1] \in {"IMMEDIATE", "REQUIRES_CONFIRMATION"}
          /\ p[2] \in {"EXPLICIT_ONLY", "LATEST_VALID", "HUMAN_PRECEDENCE"}
          /\ p = <<p[1], p[2]>>
      BY MetadataAssumption
    <2>2. FieldInv' /\ UNCHANGED <<log, current, authors>>
      BY <1>3, <2>1 DEF UpdateDefinition, Redefine, MetadataInv, FieldInv, FieldRows
    <2> QED  BY <2>2, FieldMoves
  <1>4. ASSUME NEW v \in FieldValues, AddEnumValue(v) \/ DeactivateEnumValue(v)
        PROVE  MetadataInv'
    <2>1. PICK known \in SUBSET FieldValues, allowed \in SUBSET FieldValues :
             /\ allowed \subseteq known
             /\ field' = [field EXCEPT !.known = known, !.allowed = allowed]
      <3>1. field \in FieldRows /\ field.allowed \subseteq field.known
        BY DEF MetadataInv, FieldInv
      <3>2. CASE AddEnumValue(v)
        <4>1. field' = [field EXCEPT !.known = field.known \cup {v}, !.allowed = field.allowed \cup {v}]
          BY <3>2 DEF AddEnumValue
        <4> QED  BY <3>1, <4>1 DEF FieldRows
      <3>3. CASE DeactivateEnumValue(v)
        <4>1. field' = [field EXCEPT !.known = field.known, !.allowed = field.allowed \ {v}]
          BY <3>1, <3>3 DEF DeactivateEnumValue, FieldRows
        <4> QED  BY <3>1, <4>1 DEF FieldRows
      <3> QED  BY <1>4, <3>2, <3>3
    <2>2. UNCHANGED <<log, current, authors>>
      BY <1>4 DEF AddEnumValue, DeactivateEnumValue, Redefine
    <2>3. FieldInv'
      BY <2>1 DEF MetadataInv, FieldInv, FieldRows
    <2> QED  BY <2>2, <2>3, FieldMoves
  <1>5. ASSUME NEW a \in Authors, ReadDefinition(a)
        PROVE  MetadataInv'
    <2> DEFINE w == [pc |-> "read", field |-> field]
    <2>1. authors' = [authors EXCEPT ![a] = w] /\ UNCHANGED <<field, log, current, redefinitions>>
      BY <1>5 DEF ReadDefinition
    <2>2. w.pc = "read" /\ w.field \in FieldRows
      BY DEF MetadataInv, FieldInv
    <2> HIDE DEF w
    <2>3. AuthorOK(a)'
      BY <2>1, <2>2 DEF AuthorOK, MetadataInv
    <2> QED  BY <2>1, <2>2, <2>3, AuthorMoves
  <1>6. ASSUME NEW a \in Authors, Abandon(a)
        PROVE  MetadataInv'
    <2>1. authors' = [authors EXCEPT ![a] = IdleAuthor] /\ UNCHANGED <<field, log, current, redefinitions>>
      BY <1>6 DEF Abandon
    <2>2. AuthorOK(a)'
      BY <2>1 DEF AuthorOK, MetadataInv
    <2>3. IdleAuthor.pc # "written"
      BY DEF IdleAuthor
    <2> QED  BY <2>1, <2>2, <2>3, AuthorMoves
  <1>7. ASSUME NEW a \in Authors, AuthorStep(a)
        PROVE  MetadataInv'
    BY <1>5, <1>6, <1>7, AddKeepsLog, ApplyKeepsLog, CommitKeepsLog DEF AuthorStep, Operations
  <1> QED  BY <1>1, <1>2, <1>3, <1>4, <1>7 DEF MetadataNext

\* It holds at the start and is kept.
LEMMA MetadataInvariant == MetadataSpec => []MetadataInv
  BY MetadataBegins, MetadataStep, PTL DEF MetadataSpec

(***************************************************************************)
(* The stored projection of a document's field is that of the whole log,   *)
(* however the commands of any number of authors and changes of its        *)
(* definition interleave; and what it shows as a value is supported by     *)
(* events that agree and that nothing in the log takes back.               *)
(***************************************************************************)
THEOREM ProjectionIsCurrent == MetadataSpec => []ProjectionStands
  <1>1. MetadataInv => ProjectionStands
    <2> SUFFICES ASSUME MetadataInv PROVE ProjectionStands
      OBVIOUS
    <2>1. CASE log = <<>> /\ current = NoResolution
      BY <2>1 DEF ProjectionStands, NoResolution
    <2>2. ASSUME NEW f \in FieldRows, current = Resolve(log, f)
          PROVE  ProjectionStands
      <3>1. current.by = f
        BY <2>2 DEF Resolve
      <3>2. LogOK(log)
        BY DEF MetadataInv
      <3>3. ASSUME current.state \in {"VALUE", "CONFLICTED"}, NEW v \in current.values, NEW i \in v.support
            PROVE  i \in Candidates(log, f) /\ log[i].value = log[v.source].value /\ i <= v.source
        BY <2>2, <3>2, <3>3, ShownAreCandidates
      <3> QED  BY <2>2, <3>1, <3>2, <3>3, CandidatesStand DEF ProjectionStands
    <2> QED  BY <2>1, <2>2 DEF MetadataInv
  <1> QED  BY MetadataInvariant, <1>1, PTL

(***************************************************************************)
(* Type correctness: the definition has policies in use and no active      *)
(* value that it does not know, an event names earlier events, and the     *)
(* projection has one of its four states.                                  *)
(***************************************************************************)
THEOREM MetadataTyped == MetadataSpec => []MetadataTypeOK
  <1>1. MetadataInv => MetadataTypeOK
    <2> SUFFICES ASSUME MetadataInv PROVE MetadataTypeOK
      OBVIOUS
    <2>1. \A a \in Authors : authors[a].pc \in {"idle", "read", "written"}
      BY DEF MetadataInv, AuthorOK, IdleAuthor
    <2>2. current.state \in {"EMPTY", "PENDING", "VALUE", "CONFLICTED"}
      <3>1. \A f : Resolve(log, f).state \in {"EMPTY", "PENDING", "VALUE", "CONFLICTED"}
        BY DEF Resolve
      <3> QED  BY <3>1 DEF MetadataInv, NoResolution
    <2>3. \A i \in DOMAIN log : log[i].target < i /\ log[i].supersedes < i
      BY DEF MetadataInv, LogOK, EventOK
    <2> QED  BY <2>1, <2>2, <2>3 DEF MetadataInv, FieldInv, MetadataTypeOK
  <1> QED  BY MetadataInvariant, <1>1, PTL

-----------------------------------------------------------------------------
(* The configurations of matters and the members of tenants.                *)

\* The values of a configuration and of the rows of a matter.
Fields == CoreFields \cup CustomFields
\* The rows an administration keeps: the metadata of a matter, its groups, a matter, a template.
Definitions == UNION {[F -> DefinitionStates] : F \in SUBSET Fields}
GroupRows == [key : Groups, scope : {"SYSTEM", "MATTER", "PERSONAL"}, owner : {FirstUser} \cup Users,
              fields : SUBSET Fields]
MatterRows == [client : Clients, definitions : Definitions, groups : SUBSET GroupRows]

\* The fields of the default profile are never archived, groups name definitions that the matter
\* has, and shared groups have different keys.
MatterOK(row) ==
    /\ row \in MatterRows
    /\ \A k \in CoreFields : k \in DOMAIN row.definitions /\ row.definitions[k] = "ACTIVE"
    /\ \A g \in row.groups : g.fields \subseteq DOMAIN row.definitions
    /\ \A g \in row.groups, h \in row.groups :
          g.scope # "PERSONAL" /\ h.scope # "PERSONAL" /\ g.key = h.key => g = h

\* What has been copied from the definitions of a matter.
CopiedDefinitions(definitions) ==
    /\ definitions \in Definitions
    /\ \A k \in CoreFields : k \in DOMAIN definitions /\ definitions[k] = "ACTIVE"

\* A configuration that a template keeps or a matter is made from.
ConfigurationOK(configuration) ==
    /\ CopiedDefinitions(configuration.definitions)
    /\ configuration.groups \in SUBSET GroupRows
    /\ Instantiable(configuration)

\* A copy between its reads.
CopyOK(copy) ==
    /\ copy.pc \in {"idle", "read"}
    /\ copy.pc = "read" => /\ copy.user \in DOMAIN users
                           /\ copy.source \in DOMAIN matters
                           /\ CopiedDefinitions(copy.definitions)
                           /\ copy.kind = "clone" => copy.target \in DOMAIN clients

\* What a membership is of belongs to the member's tenant.
MembersInv ==
    \A member \in members :
        /\ member[1] \in DOMAIN users
        /\ member[2] \in DOMAIN clients \cup DOMAIN matters
        /\ users[member[1]] = IF member[2] \in DOMAIN clients THEN clients[member[2]] ELSE TenantOf(member[2])

\* Who and what exists.
TenantsInv ==
    /\ DOMAIN users \subseteq {FirstUser} \cup Users
    /\ \A u \in DOMAIN users : users[u] \in DOMAIN parents
    /\ DOMAIN clients \subseteq Clients
    /\ DOMAIN matters \subseteq Matters

\* The parts of the invariant: what every matter, running copy, template and saved search is.
MattersInv ==
    \A m \in DOMAIN matters : MatterOK(matters[m]) /\ matters[m].client \in DOMAIN clients

CopiesInv == DOMAIN copies = Copies /\ \A q \in Copies : CopyOK(copies[q])

TemplatesInv == \A template \in templates : ConfigurationOK(template.configuration)

\* A user has one saved search of a name in a matter.
SearchRows == [owner : {FirstUser} \cup Users, matter : Matters, name : Searches,
               visibility : Visibilities, shares : SUBSET ({FirstUser} \cup Users)]
SearchesInv ==
    /\ saved \subseteq SearchRows
    /\ \A s \in saved, t \in saved : s.owner = t.owner /\ s.matter = t.matter /\ s.name = t.name => s = t

\* The inductive invariant.  That templates can be instantiated says nothing of the copies that
\* are between their reads, nor of the matters they read: these are what it adds.
AdminInv ==
    TenantsInv /\ MembersInv /\ MattersInv /\ CopiesInv /\ TemplatesInv /\ SearchesInv

-----------------------------------------------------------------------------
(* The rows of the model: adding to a function, changing a field of a row.   *)

\* A row that is added is found under its key, the others stay as they were.
LEMMA AddedRow ==
  ASSUME NEW f, NEW x, NEW v, NEW g, g = Insert(f, x, v)
  PROVE  /\ DOMAIN g = DOMAIN f \cup {x}
         /\ x \notin DOMAIN f => g[x] = v
         /\ \A y \in DOMAIN f : g[y] = f[y]
  BY DEF Insert

\* What is in a set of definitions: statuses under fields.
LEMMA DefinitionsAre ==
  ASSUME NEW d
  PROVE  /\ d \in Definitions => /\ DOMAIN d \subseteq Fields
                                 /\ \A k \in DOMAIN d : d[k] \in DefinitionStates
                                 /\ d = [k \in DOMAIN d |-> d[k]]
         /\ \A F \in SUBSET Fields : d \in [F -> DefinitionStates] => d \in Definitions
  BY DEF Definitions

\* A definition that is added is a definition, and the others are kept.
LEMMA AddedDefinition ==
  ASSUME NEW d \in Definitions, NEW k \in Fields, NEW e, e = Insert(d, k, "ACTIVE")
  PROVE  e \in Definitions
<1> DEFINE F == DOMAIN d \cup {k}
<1>1. F \in SUBSET Fields
  BY DefinitionsAre
<1>2. e = [y \in F |-> IF y \in DOMAIN d THEN d[y] ELSE "ACTIVE"]
  BY DEF Insert
<1>3. \A y \in F : (IF y \in DOMAIN d THEN d[y] ELSE "ACTIVE") \in DefinitionStates
  BY DefinitionsAre DEF DefinitionStates
<1>4. e \in [F -> DefinitionStates]
  BY <1>2, <1>3
<1> QED
  BY <1>1, <1>4, DefinitionsAre

\* A definition that is archived stays a definition.
LEMMA ArchivedDefinition ==
  ASSUME NEW d \in Definitions, NEW k \in DOMAIN d, NEW e, e = [d EXCEPT ![k] = "ARCHIVED"]
  PROVE  e \in Definitions
<1> DEFINE F == DOMAIN d
<1>1. F \in SUBSET Fields
  BY DefinitionsAre
<1>2. d \in [F -> DefinitionStates]
  BY DefinitionsAre
<1>3. e \in [F -> DefinitionStates]
  BY <1>2 DEF DefinitionStates
<1> QED
  BY <1>1, <1>3, DefinitionsAre

-----------------------------------------------------------------------------
(* What grows: nothing that exists is removed or moved.                      *)

\* Users and clients keep their tenant, matters their client.
Grown ==
    /\ \A u \in DOMAIN users : u \in DOMAIN users' /\ users'[u] = users[u]
    /\ \A c \in DOMAIN clients : c \in DOMAIN clients' /\ clients'[c] = clients[c]
    /\ \A m \in DOMAIN matters : m \in DOMAIN matters' /\ matters'[m].client = matters[m].client

\* Memberships that were given stay within their tenant, and new ones are within it.
LEMMA MembersGrow ==
  ASSUME TenantsInv', MembersInv, MattersInv, Grown,
         \A member \in members' \ members :
            /\ member[1] \in DOMAIN users'
            /\ \/ /\ member[2] \in DOMAIN clients'
                  /\ users'[member[1]] = clients'[member[2]]
               \/ /\ member[2] \in DOMAIN matters'
                  /\ users'[member[1]] = clients'[matters'[member[2]].client]
  PROVE  MembersInv'
<1> SUFFICES ASSUME NEW b \in members'
             PROVE  /\ b[1] \in DOMAIN users'
                    /\ b[2] \in DOMAIN clients' \cup DOMAIN matters'
                    /\ users'[b[1]] = IF b[2] \in DOMAIN clients' THEN clients'[b[2]]
                                      ELSE clients'[matters'[b[2]].client]
  BY DEF MembersInv, TenantOf
<1>1. DOMAIN clients' \cap DOMAIN matters' = {}
  BY AdministrationAssumption DEF TenantsInv
<1>2. CASE b \notin members
  BY <1>1, <1>2
<1>3. CASE b \in members
  <2>1. /\ b[1] \in DOMAIN users
        /\ b[2] \in DOMAIN clients \cup DOMAIN matters
        /\ users[b[1]] = IF b[2] \in DOMAIN clients THEN clients[b[2]] ELSE clients[matters[b[2]].client]
    BY <1>3 DEF MembersInv, TenantOf
  <2>2. CASE b[2] \in DOMAIN clients
    BY <2>1, <2>2 DEF Grown
  <2>3. CASE b[2] \notin DOMAIN clients
    <3>1. b[2] \in DOMAIN matters /\ matters[b[2]].client \in DOMAIN clients
      BY <2>1, <2>3 DEF MattersInv
    <3>2. b[2] \in DOMAIN matters' /\ b[2] \notin DOMAIN clients'
      BY <1>1, <3>1 DEF Grown
    <3> QED
      BY <2>1, <2>3, <3>1, <3>2 DEF Grown
  <2> QED
    BY <2>2, <2>3
<1> QED
  BY <1>2, <1>3

\* A copy that does not move stays what it is.
LEMMA CopiesStay ==
  ASSUME CopiesInv, Grown, UNCHANGED copies
  PROVE  CopiesInv'
<1>1. \A q \in Copies : CopyOK(copies[q])'
  BY DEF CopiesInv, CopyOK, Grown
<1> QED
  BY <1>1 DEF CopiesInv

\* Templates and searches that nobody touches.
LEMMA KeptStay ==
  ASSUME TemplatesInv, SearchesInv, UNCHANGED <<templates, saved>>
  PROVE  TemplatesInv' /\ SearchesInv'
  BY DEF TemplatesInv, SearchesInv

\* Matters that nobody touches.
LEMMA MattersStay ==
  ASSUME MattersInv, Grown, UNCHANGED matters
  PROVE  MattersInv'
  BY DEF MattersInv, Grown

\* A matter that is added with a configuration.
LEMMA MatterAdded ==
  ASSUME AdminInv, NEW u \in DOMAIN users, NEW c \in DOMAIN clients, NEW m \in Matters,
         NEW configuration, AddMatter(u, c, m, configuration), UNCHANGED <<parents, users, clients>>,
         MatterOK([client |-> c, definitions |-> configuration.definitions, groups |-> configuration.groups])
  PROVE  TenantsInv' /\ Grown /\ MattersInv' /\ MembersInv'
<1> DEFINE row == [client |-> c, definitions |-> configuration.definitions, groups |-> configuration.groups]
<1>1. row.client = c /\ MatterOK(row)
  OBVIOUS
<1>2. /\ m \notin DOMAIN matters /\ matters' = Insert(matters, m, row)
      /\ members' = members \cup Membership(u, clients[c], m)
  BY DEF AddMatter
<1> HIDE DEF row
<1>3. /\ DOMAIN matters' = DOMAIN matters \cup {m}
      /\ matters'[m] = row
      /\ \A n \in DOMAIN matters : matters'[n] = matters[n]
  BY <1>2 DEF Insert
<1>4. TenantsInv'
  BY <1>3 DEF AdminInv, TenantsInv
<1>5. Grown
  BY <1>3 DEF Grown
<1>6. MattersInv'
  BY <1>1, <1>3 DEF AdminInv, MattersInv, MatterOK
<1>7. ASSUME NEW b \in members' \ members
      PROVE  /\ b[1] \in DOMAIN users'
             /\ b[2] \in DOMAIN matters'
             /\ users'[b[1]] = clients'[matters'[b[2]].client]
  <2>1. b = <<u, m>> /\ users[u] = clients[c]
    BY <1>2, <1>7 DEF Membership
  <2> QED
    BY <1>1, <1>3, <2>1
<1>8. MembersInv'
  BY <1>4, <1>5, <1>7, MembersGrow DEF AdminInv
<1> QED
  BY <1>4, <1>5, <1>6, <1>8

\* A matter whose configuration changes.
LEMMA MatterChanged ==
  ASSUME AdminInv, NEW m \in DOMAIN matters, NEW row, MatterOK(row), row.client = matters[m].client,
         matters' = [matters EXCEPT ![m] = row], UNCHANGED <<parents, users, clients, members>>
  PROVE  TenantsInv' /\ Grown /\ MattersInv' /\ MembersInv'
<1>1. /\ DOMAIN matters' = DOMAIN matters
      /\ \A n \in DOMAIN matters : matters'[n] = IF n = m THEN row ELSE matters[n]
  OBVIOUS
<1>2. TenantsInv'
  BY <1>1 DEF AdminInv, TenantsInv
<1>3. Grown
  BY <1>1 DEF Grown
<1>4. MattersInv'
  BY <1>1 DEF AdminInv, MattersInv
<1>5. MembersInv'
  BY <1>2, <1>3, MembersGrow DEF AdminInv
<1> QED
  BY <1>2, <1>3, <1>4, <1>5

-----------------------------------------------------------------------------
(* Each command preserves the invariant.                                     *)

\* The root tenant and its administrator.
LEMMA AdminBegins == AdminInit => AdminInv
<1> SUFFICES ASSUME AdminInit PROVE AdminInv
  OBVIOUS
<1>1. DOMAIN users = {FirstUser} /\ users[FirstUser] = Root /\ DOMAIN parents = {Root}
  BY DEF AdminInit
<1>2. DOMAIN clients = {} /\ DOMAIN matters = {} /\ members = {} /\ templates = {} /\ saved = {}
  BY DEF AdminInit
<1>3. CopiesInv
  BY DEF AdminInit, CopiesInv, CopyOK, IdleCopy
<1> QED
  BY <1>1, <1>2, <1>3 DEF AdminInv, TenantsInv, MembersInv, MattersInv, TemplatesInv, SearchesInv

\* A tenant with its administrator, and a user of a tenant: nothing is taken from others.
LEMMA UserAdded ==
  ASSUME AdminInv, NEW t, NEW u \in Users, u \notin DOMAIN users, t \in DOMAIN parents',
         DOMAIN parents \subseteq DOMAIN parents', users' = Insert(users, u, t),
         UNCHANGED <<clients, matters, members, templates, copies, saved>>
  PROVE  AdminInv'
<1>1. /\ DOMAIN users' = DOMAIN users \cup {u} /\ users'[u] = t
      /\ \A v \in DOMAIN users : users'[v] = users[v]
  BY DEF Insert
<1>2. TenantsInv'
  BY <1>1 DEF AdminInv, TenantsInv
<1>3. Grown
  BY <1>1 DEF Grown
<1>4. MembersInv'
  BY <1>2, <1>3, MembersGrow DEF AdminInv
<1> QED
  BY <1>2, <1>3, <1>4, MattersStay, CopiesStay, KeptStay DEF AdminInv

\* The tenant is new, and so is its administrator: no row names either.
LEMMA CreateTenantAdmin ==
  ASSUME AdminInv, NEW p \in DOMAIN users, NEW t \in Tenants, NEW parent \in DOMAIN parents,
         NEW u \in Users, CreateTenant(p, t, parent, u)
  PROVE  AdminInv'
<1>1. DOMAIN parents' = DOMAIN parents \cup {t}
  BY DEF CreateTenant, Insert
<1>2. /\ u \notin DOMAIN users /\ users' = Insert(users, u, t)
      /\ UNCHANGED <<clients, matters, members, templates, copies, saved>>
  BY DEF CreateTenant
<1> QED
  BY <1>1, <1>2, UserAdded

\* A new user of a tenant the caller may administer: nobody else changes.
LEMMA CreateTenantUserAdmin ==
  ASSUME AdminInv, NEW p \in DOMAIN users, NEW t \in DOMAIN parents, NEW u \in Users,
         CreateTenantUser(p, t, u)
  PROVE  AdminInv'
<1>1. /\ u \notin DOMAIN users /\ users' = Insert(users, u, t)
      /\ UNCHANGED <<parents, clients, matters, members, templates, copies, saved>>
  BY DEF CreateTenantUser
<1> QED
  BY <1>1, UserAdded

\* A client; its creator becomes a member if the client is of its own tenant.
LEMMA CreateClientAdmin ==
  ASSUME AdminInv, NEW p \in DOMAIN users, NEW t \in DOMAIN parents, NEW c \in Clients,
         CreateClient(p, t, c)
  PROVE  AdminInv'
<1>1. /\ c \notin DOMAIN clients /\ clients' = Insert(clients, c, t)
      /\ members' = members \cup Membership(p, t, c)
      /\ UNCHANGED <<parents, users, matters, templates, copies, saved>>
  BY DEF CreateClient
<1>2. /\ DOMAIN clients' = DOMAIN clients \cup {c} /\ clients'[c] = t
      /\ \A d \in DOMAIN clients : clients'[d] = clients[d]
  BY <1>1 DEF Insert
<1>3. TenantsInv'
  BY <1>1, <1>2 DEF AdminInv, TenantsInv
<1>4. Grown
  BY <1>1, <1>2 DEF Grown
<1>5. ASSUME NEW b \in members' \ members
      PROVE  b[1] \in DOMAIN users' /\ b[2] \in DOMAIN clients' /\ users'[b[1]] = clients'[b[2]]
  <2>1. b = <<p, c>> /\ users[p] = t
    BY <1>1, <1>5 DEF Membership
  <2> QED
    BY <1>1, <1>2, <2>1
<1>6. MembersInv'
  BY <1>3, <1>4, <1>5, MembersGrow DEF AdminInv
<1> QED
  BY <1>1, <1>3, <1>4, <1>6, MattersStay, CopiesStay, KeptStay DEF AdminInv

\* The default profile is a configuration of a matter.
LEMMA DefaultIsOK ==
  ASSUME NEW c \in Clients
  PROVE  MatterOK([client |-> c, definitions |-> DefaultConfiguration.definitions,
                   groups |-> DefaultConfiguration.groups])
<1> DEFINE d == [k \in CoreFields |-> "ACTIVE"]
           group == [key |-> CoreGroup, scope |-> "SYSTEM", owner |-> FirstUser, fields |-> CoreFields]
           row == [client |-> c, definitions |-> d, groups |-> {group}]
<1>1. DefaultConfiguration.definitions = d /\ DefaultConfiguration.groups = {group}
  BY DEF DefaultConfiguration
<1>2. CoreFields \in SUBSET Fields /\ d \in [CoreFields -> DefinitionStates]
  BY DEF Fields, DefinitionStates
<1>3. d \in Definitions
  BY <1>2 DEF Definitions
<1>4. group \in GroupRows
  BY AdministrationAssumption DEF GroupRows, Fields
<1>5. row \in MatterRows
  BY <1>3, <1>4 DEF MatterRows
<1>6. group.fields = DOMAIN d
  OBVIOUS
<1>7. MatterOK(row)
  BY <1>5, <1>6 DEF MatterOK
<1> QED
  BY <1>1, <1>7

\* A new matter under a client: its group and definitions are those of the default.
LEMMA CreateMatterAdmin ==
  ASSUME AdminInv, NEW p \in DOMAIN users, NEW c \in DOMAIN clients, NEW m \in Matters,
         CreateMatter(p, c, m)
  PROVE  AdminInv'
<1>1. /\ AddMatter(p, c, m, DefaultConfiguration)
      /\ UNCHANGED <<parents, users, clients, templates, copies, saved>>
  BY DEF CreateMatter
<1>2. c \in Clients
  BY DEF AdminInv, TenantsInv
<1>3. TenantsInv' /\ Grown /\ MattersInv' /\ MembersInv'
  BY <1>1, <1>2, DefaultIsOK, MatterAdded
<1> QED
  BY <1>1, <1>3, CopiesStay, KeptStay DEF AdminInv

\* What can be instantiated makes a matter.
LEMMA ConfiguredIsOK ==
  ASSUME NEW c \in Clients, NEW configuration, ConfigurationOK(configuration)
  PROVE  MatterOK([client |-> c, definitions |-> configuration.definitions, groups |-> configuration.groups])
  BY DEF ConfigurationOK, CopiedDefinitions, Instantiable, MatterOK, MatterRows

\* A new matter from a template the caller may use.
LEMMA CreateFromTemplateAdmin ==
  ASSUME AdminInv, NEW p \in DOMAIN users, NEW c \in DOMAIN clients, NEW m \in Matters,
         NEW template \in templates, CreateFromTemplate(p, c, m, template)
  PROVE  AdminInv'
<1>1. /\ AddMatter(p, c, m, template.configuration)
      /\ UNCHANGED <<parents, users, clients, templates, copies, saved>>
  BY DEF CreateFromTemplate
<1>2. c \in Clients /\ ConfigurationOK(template.configuration)
  BY DEF AdminInv, TenantsInv, TemplatesInv
<1>3. TenantsInv' /\ Grown /\ MattersInv' /\ MembersInv'
  BY <1>1, <1>2, ConfiguredIsOK, MatterAdded
<1> QED
  BY <1>1, <1>3, CopiesStay, KeptStay DEF AdminInv

\* A new definition hides none of the others.
LEMMA AddFieldAdmin ==
  ASSUME AdminInv, NEW p \in DOMAIN users, NEW m \in DOMAIN matters, NEW k \in CustomFields,
         AddField(p, m, k)
  PROVE  AdminInv'
<1> DEFINE d == matters[m].definitions
           e == Insert(d, k, "ACTIVE")
           row == [matters[m] EXCEPT !.definitions = e]
<1>1. MatterOK(matters[m])
  BY DEF AdminInv, MattersInv
<1>2. /\ matters[m] \in MatterRows /\ d \in Definitions
      /\ \A f \in CoreFields : f \in DOMAIN d /\ d[f] = "ACTIVE"
      /\ \A g \in matters[m].groups : g.fields \subseteq DOMAIN d
      /\ \A g \in matters[m].groups, h \in matters[m].groups :
            g.scope # "PERSONAL" /\ h.scope # "PERSONAL" /\ g.key = h.key => g = h
  BY <1>1 DEF MatterOK, MatterRows
<1>3. /\ matters' = [matters EXCEPT ![m] = row]
      /\ UNCHANGED <<parents, users, clients, members, templates, copies, saved>>
  BY DEF AddField
<1> HIDE DEF d
<1>4. e \in Definitions /\ DOMAIN d \subseteq DOMAIN e /\ \A f \in DOMAIN d : e[f] = d[f]
  <2>1. k \in Fields
    BY DEF Fields
  <2>2. e \in Definitions
    BY <1>2, <2>1, AddedDefinition
  <2> QED
    BY <2>2 DEF Insert
<1> HIDE DEF e
<1>5. row.definitions = e /\ row.groups = matters[m].groups /\ row.client = matters[m].client
  BY <1>2 DEF MatterRows
<1>6. row \in MatterRows
  BY <1>2, <1>4 DEF MatterRows
<1> HIDE DEF row
<1>7. MatterOK(row)
  BY <1>2, <1>4, <1>5, <1>6 DEF MatterOK
<1>8. TenantsInv' /\ Grown /\ MattersInv' /\ MembersInv'
  BY <1>3, <1>5, <1>7, MatterChanged
<1> QED
  BY <1>3, <1>8, CopiesStay, KeptStay DEF AdminInv

\* A definition that is archived is kept, and it is none of the default profile.
LEMMA ArchiveFieldAdmin ==
  ASSUME AdminInv, NEW p \in DOMAIN users, NEW m \in DOMAIN matters, NEW k \in CustomFields,
         ArchiveField(p, m, k)
  PROVE  AdminInv'
<1> DEFINE d == matters[m].definitions
           e == [d EXCEPT ![k] = "ARCHIVED"]
           row == [matters[m] EXCEPT !.definitions = e]
<1>1. MatterOK(matters[m])
  BY DEF AdminInv, MattersInv
<1>2. /\ matters[m] \in MatterRows /\ d \in Definitions
      /\ \A f \in CoreFields : f \in DOMAIN d /\ d[f] = "ACTIVE"
      /\ \A g \in matters[m].groups : g.fields \subseteq DOMAIN d
      /\ \A g \in matters[m].groups, h \in matters[m].groups :
            g.scope # "PERSONAL" /\ h.scope # "PERSONAL" /\ g.key = h.key => g = h
  BY <1>1 DEF MatterOK, MatterRows
<1>3. /\ k \in DOMAIN d /\ matters' = [matters EXCEPT ![m] = row]
      /\ UNCHANGED <<parents, users, clients, members, templates, copies, saved>>
  BY DEF ArchiveField
<1> HIDE DEF d
<1>4. e \in Definitions /\ DOMAIN d = DOMAIN e /\ \A f \in CoreFields : e[f] = d[f]
  <2>1. k \notin CoreFields
    BY AdministrationAssumption
  <2>2. e \in Definitions
    BY <1>2, <1>3, ArchivedDefinition
  <2> QED
    BY <1>2, <2>1, <2>2
<1> HIDE DEF e
<1>5. row.definitions = e /\ row.groups = matters[m].groups /\ row.client = matters[m].client
  BY <1>2 DEF MatterRows
<1>6. row \in MatterRows
  BY <1>2, <1>4 DEF MatterRows
<1> HIDE DEF row
<1>7. MatterOK(row)
  BY <1>2, <1>4, <1>5, <1>6 DEF MatterOK
<1>8. TenantsInv' /\ Grown /\ MattersInv' /\ MembersInv'
  BY <1>3, <1>5, <1>7, MatterChanged
<1> QED
  BY <1>3, <1>8, CopiesStay, KeptStay DEF AdminInv

\* A group names usable definitions, and a shared one has a key that no shared group has.
LEMMA CreateMetadataGroupAdmin ==
  ASSUME AdminInv, NEW p \in DOMAIN users, NEW m \in DOMAIN matters, NEW key \in Groups,
         NEW scope \in {"MATTER", "PERSONAL"}, NEW fields \in SUBSET Usable(m),
         CreateMetadataGroup(p, m, key, scope, fields)
  PROVE  AdminInv'
<1> DEFINE d == matters[m].definitions
           group == [key |-> key, scope |-> scope, owner |-> p, fields |-> fields]
           groups == matters[m].groups \cup {group}
           row == [matters[m] EXCEPT !.groups = groups]
<1>1. MatterOK(matters[m])
  BY DEF AdminInv, MattersInv
<1>2. /\ matters[m] \in MatterRows /\ d \in Definitions /\ matters[m].groups \subseteq GroupRows
      /\ \A f \in CoreFields : f \in DOMAIN d /\ d[f] = "ACTIVE"
      /\ \A g \in matters[m].groups : g.fields \subseteq DOMAIN d
      /\ \A g \in matters[m].groups, h \in matters[m].groups :
            g.scope # "PERSONAL" /\ h.scope # "PERSONAL" /\ g.key = h.key => g = h
  BY <1>1 DEF MatterOK, MatterRows
<1>3. /\ scope # "PERSONAL" => \A g \in matters[m].groups : g.scope # "PERSONAL" => g.key # key
      /\ matters' = [matters EXCEPT ![m] = row]
      /\ UNCHANGED <<parents, users, clients, members, templates, copies, saved>>
  BY DEF CreateMetadataGroup
<1>4. fields \subseteq DOMAIN d /\ fields \in SUBSET Fields /\ p \in {FirstUser} \cup Users
  BY <1>2, DefinitionsAre DEF Usable, AdminInv, TenantsInv
<1>5. group \in GroupRows
  BY <1>4 DEF GroupRows
<1>6. group.fields = fields /\ group.key = key /\ group.scope = scope
  OBVIOUS
<1> HIDE DEF group
<1>7. row.definitions = d /\ row.groups = groups /\ row.client = matters[m].client
  BY <1>2 DEF MatterRows
<1>8. row \in MatterRows
  BY <1>2, <1>5 DEF MatterRows
<1> HIDE DEF row
<1>9. MatterOK(row)
  <2>1. \A g \in row.groups : g.fields \subseteq DOMAIN row.definitions
    BY <1>2, <1>4, <1>6, <1>7
  <2>2. \A g \in row.groups, h \in row.groups :
            g.scope # "PERSONAL" /\ h.scope # "PERSONAL" /\ g.key = h.key => g = h
    BY <1>2, <1>3, <1>6, <1>7
  <2> QED
    BY <1>2, <1>7, <1>8, <2>1, <2>2 DEF MatterOK
<1>10. TenantsInv' /\ Grown /\ MattersInv' /\ MembersInv'
  BY <1>3, <1>7, <1>9, MatterChanged
<1> QED
  BY <1>3, <1>10, CopiesStay, KeptStay DEF AdminInv

\* The first read of a copy: the definitions that are not archived.
LEMMA BeginCopyAdmin ==
  ASSUME AdminInv, NEW q \in Copies, NEW p \in DOMAIN users, NEW m \in DOMAIN matters, NEW kind, NEW target,
         BeginCopy(q, p, m, kind, target)
  PROVE  AdminInv'
<1> DEFINE d == matters[m].definitions
           read == [k \in Usable(m) |-> d[k]]
           copy == [pc |-> "read", user |-> p, source |-> m, kind |-> kind, target |-> target,
                    definitions |-> read]
<1>1. /\ copies' = [copies EXCEPT ![q] = copy]
      /\ kind = "clone" => target \in DOMAIN clients
      /\ UNCHANGED <<parents, users, clients, matters, members, templates, saved>>
  BY DEF BeginCopy
<1>2. d \in Definitions /\ \A f \in CoreFields : f \in DOMAIN d /\ d[f] = "ACTIVE"
  BY DEF AdminInv, MattersInv, MatterOK, MatterRows
<1>3. Usable(m) = {k \in DOMAIN d : d[k] # "ARCHIVED"}
  BY DEF Usable
<1> HIDE DEF d
<1>4. Usable(m) \in SUBSET Fields /\ \A k \in Usable(m) : d[k] \in DefinitionStates
  BY <1>2, <1>3, DefinitionsAre
<1>5. read \in [Usable(m) -> DefinitionStates]
  BY <1>4
<1>6. read \in Definitions
  BY <1>4, <1>5, DefinitionsAre
<1>7. \A f \in CoreFields : f \in DOMAIN read /\ read[f] = "ACTIVE"
  BY <1>2, <1>3
<1> HIDE DEF read
<1>8. CopiedDefinitions(read)
  BY <1>6, <1>7 DEF CopiedDefinitions
<1>9. /\ copy.pc = "read" /\ copy.user = p /\ copy.source = m /\ copy.kind = kind /\ copy.target = target
      /\ copy.definitions = read
  OBVIOUS
<1> HIDE DEF copy
<1>10. Grown
  BY <1>1 DEF Grown
<1>11. CopiesInv'
  <2> SUFFICES ASSUME NEW r \in Copies PROVE CopyOK(copies[r])'
    BY <1>1 DEF AdminInv, CopiesInv
  <2>1. CASE r = q
    <3>1. copies'[r] = copy
      BY <1>1, <2>1 DEF AdminInv, CopiesInv
    <3> QED
      BY <1>1, <1>8, <1>9, <3>1 DEF CopyOK
  <2>2. CASE r # q
    <3>1. copies'[r] = copies[r]
      BY <1>1, <2>2 DEF AdminInv, CopiesInv
    <3> QED
      BY <1>1, <3>1 DEF CopyOK, AdminInv, CopiesInv
  <2> QED
    BY <2>1, <2>2
<1>12. TenantsInv' /\ MembersInv'
  BY <1>1 DEF AdminInv, TenantsInv, MembersInv, TenantOf
<1> QED
  BY <1>1, <1>10, <1>11, <1>12, MattersStay, KeptStay DEF AdminInv

\* A slot whose copy is made is free; the matters may have grown.
LEMMA CopyEnds ==
  ASSUME CopiesInv, Grown, NEW q \in Copies, copies' = [copies EXCEPT ![q] = IdleCopy]
  PROVE  CopiesInv'
<1> SUFFICES ASSUME NEW r \in Copies PROVE CopyOK(copies[r])'
  BY DEF CopiesInv
<1>1. CASE r = q
  BY <1>1 DEF CopiesInv, CopyOK, IdleCopy
<1>2. CASE r # q
  <2>1. copies'[r] = copies[r]
    BY <1>2 DEF CopiesInv
  <2> QED
    BY <2>1 DEF CopiesInv, CopyOK, Grown
<1> QED
  BY <1>1, <1>2

\* What a copy has read makes a configuration that can be instantiated, whatever became of the
\* matter between its two reads: a group keeps the fields that the copy has.
LEMMA SnapshotIsOK ==
  ASSUME AdminInv, NEW q \in Copies, copies[q].pc = "read"
  PROVE  ConfigurationOK(Snapshot(q))
<1> DEFINE d == copies[q].definitions
           source == matters[copies[q].source]
           shared == {h \in source.groups : h.scope # "PERSONAL"}
           Copied(g) == [g EXCEPT !.owner = copies[q].user, !.fields = g.fields \cap DOMAIN d]
           groups == {Copied(g) : g \in shared}
<1>1. CopyOK(copies[q])
  BY DEF AdminInv, CopiesInv
<1>2. /\ copies[q].user \in {FirstUser} \cup Users /\ CopiedDefinitions(d)
      /\ copies[q].source \in DOMAIN matters
  BY <1>1 DEF CopyOK, AdminInv, TenantsInv
<1>3. MatterOK(source)
  BY <1>2 DEF AdminInv, MattersInv
<1>4. /\ source.groups \subseteq GroupRows
      /\ \A g \in source.groups, h \in source.groups :
            g.scope # "PERSONAL" /\ h.scope # "PERSONAL" /\ g.key = h.key => g = h
  BY <1>3 DEF MatterOK, MatterRows
<1>5. Snapshot(q) = [definitions |-> d, groups |-> groups]
  BY DEF Snapshot, CopiedFields
<1> HIDE DEF d, source, groups
<1>6. Snapshot(q).definitions = d /\ Snapshot(q).groups = groups
  BY <1>5
<1>7. ASSUME NEW g \in shared
      PROVE  /\ Copied(g) \in GroupRows
             /\ Copied(g).scope # "PERSONAL" /\ Copied(g).key = g.key
             /\ Copied(g).fields \subseteq DOMAIN d
  BY <1>2, <1>4 DEF GroupRows
<1>8. groups \subseteq GroupRows
  BY <1>7 DEF groups
<1>9. \A g \in groups : g.scope # "PERSONAL" /\ g.fields \subseteq DOMAIN d
  BY <1>7 DEF groups
<1>10. ASSUME NEW g \in groups, NEW h \in groups, g.key = h.key
       PROVE  g = h
  <2>1. PICK a \in shared : g = Copied(a)
    BY DEF groups
  <2>2. PICK b \in shared : h = Copied(b)
    BY DEF groups
  <2>3. a.key = b.key
    BY <1>7, <1>10, <2>1, <2>2
  <2>4. a = b
    BY <1>4, <2>3
  <2> QED
    BY <2>1, <2>2, <2>4
<1>11. d # <<>>
  <2>1. PICK k \in CoreFields : TRUE
    BY AdministrationAssumption
  <2>2. k \in DOMAIN d
    BY <1>2, <2>1 DEF CopiedDefinitions
  <2>3. DOMAIN <<>> = {}
    OBVIOUS
  <2> QED
    BY <2>2, <2>3
<1>12. Instantiable(Snapshot(q))
  BY <1>6, <1>9, <1>10, <1>11 DEF Instantiable
<1> QED
  BY <1>2, <1>6, <1>8, <1>12 DEF ConfigurationOK

\* A template is what its copy has read, in the scope of its command.
LEMMA CreateMatterTemplateAdmin ==
  ASSUME AdminInv, NEW q \in Copies, NEW scope, CreateMatterTemplate(q, scope)
  PROVE  AdminInv'
<1> DEFINE template == [tenant |-> TenantOf(copies[q].source),
                        client |-> IF scope = "CLIENT" THEN {matters[copies[q].source].client} ELSE {},
                        configuration |-> Snapshot(q)]
<1>1. /\ copies[q].pc = "read"
      /\ templates' = templates \cup {template}
      /\ copies' = [copies EXCEPT ![q] = IdleCopy]
      /\ UNCHANGED <<parents, users, clients, matters, members, saved>>
  BY DEF CreateMatterTemplate
<1>2. template.configuration = Snapshot(q)
  OBVIOUS
<1> HIDE DEF template
<1>3. TemplatesInv'
  <2>1. ConfigurationOK(Snapshot(q))
    BY <1>1, SnapshotIsOK
  <2> QED
    BY <1>1, <1>2, <2>1 DEF AdminInv, TemplatesInv
<1>4. Grown
  BY <1>1 DEF Grown
<1>5. TenantsInv' /\ MembersInv'
  BY <1>1 DEF AdminInv, TenantsInv, MembersInv, TenantOf
<1>6. CopiesInv'
  BY <1>1, <1>4, CopyEnds DEF AdminInv
<1>7. SearchesInv'
  BY <1>1 DEF AdminInv, SearchesInv
<1> QED
  BY <1>1, <1>3, <1>4, <1>5, <1>6, <1>7, MattersStay DEF AdminInv

\* A clone is the new matter its copy makes of what it has read.
LEMMA CloneMatterAdmin ==
  ASSUME AdminInv, NEW q \in Copies, NEW m \in Matters, CloneMatter(q, m)
  PROVE  AdminInv'
<1>1. /\ copies[q].pc = "read" /\ copies[q].kind = "clone"
      /\ AddMatter(copies[q].user, copies[q].target, m, Snapshot(q))
      /\ copies' = [copies EXCEPT ![q] = IdleCopy]
      /\ UNCHANGED <<parents, users, clients, templates, saved>>
  BY DEF CloneMatter
<1>2. copies[q].user \in DOMAIN users /\ copies[q].target \in DOMAIN clients
  BY <1>1 DEF AdminInv, CopiesInv, CopyOK
<1>3. copies[q].target \in Clients
  BY <1>2 DEF AdminInv, TenantsInv
<1>4. ConfigurationOK(Snapshot(q))
  BY <1>1, SnapshotIsOK
<1>5. TenantsInv' /\ Grown /\ MattersInv' /\ MembersInv'
  BY <1>1, <1>2, <1>3, <1>4, ConfiguredIsOK, MatterAdded
<1>6. CopiesInv'
  BY <1>1, <1>5, CopyEnds DEF AdminInv
<1> QED
  BY <1>1, <1>5, <1>6, KeptStay DEF AdminInv

\* Commands that move nothing but the saved searches.
LEMMA SearchesMove ==
  ASSUME AdminInv, SearchesInv', UNCHANGED <<parents, users, clients, matters, members, templates, copies>>
  PROVE  AdminInv'
<1>1. Grown
  BY DEF Grown
<1>2. TenantsInv' /\ MembersInv' /\ TemplatesInv'
  BY DEF AdminInv, TenantsInv, MembersInv, TenantOf, TemplatesInv
<1> QED
  BY <1>1, <1>2, MattersStay, CopiesStay DEF AdminInv

\* A saved search names a matter of the tenant and shares within it.
LEMMA SaveSearchAdmin ==
  ASSUME AdminInv, NEW p \in DOMAIN users, NEW m \in DOMAIN matters, NEW name \in Searches,
         NEW visibility \in Visibilities, NEW shares \in SUBSET DOMAIN users,
         SaveSearch(p, m, name, visibility, shares)
  PROVE  AdminInv'
<1> DEFINE s == [owner |-> p, matter |-> m, name |-> name, visibility |-> visibility, shares |-> shares]
<1>1. /\ ~\E t \in saved : t.owner = p /\ t.matter = m /\ t.name = name
      /\ saved' = saved \cup {s}
      /\ UNCHANGED <<parents, users, clients, matters, members, templates, copies>>
  BY DEF SaveSearch
<1>2. s \in SearchRows
  BY DEF SearchRows, AdminInv, TenantsInv
<1>3. s.owner = p /\ s.matter = m /\ s.name = name
  OBVIOUS
<1> HIDE DEF s
<1>4. SearchesInv'
  BY <1>1, <1>2, <1>3 DEF AdminInv, SearchesInv
<1> QED
  BY <1>1, <1>4, SearchesMove

\* An update keeps the matter and the owner of a saved search.
LEMMA UpdateSearchAdmin ==
  ASSUME AdminInv, NEW p \in DOMAIN users, NEW s \in saved, NEW visibility \in Visibilities,
         NEW shares \in SUBSET DOMAIN users, UpdateSearch(p, s, visibility, shares)
  PROVE  AdminInv'
<1> DEFINE t == [s EXCEPT !.visibility = visibility, !.shares = shares]
<1>1. /\ saved' = (saved \ {s}) \cup {t}
      /\ UNCHANGED <<parents, users, clients, matters, members, templates, copies>>
  BY DEF UpdateSearch
<1>2. s \in SearchRows /\ shares \in SUBSET ({FirstUser} \cup Users)
  BY DEF AdminInv, SearchesInv, TenantsInv
<1>3. t \in SearchRows /\ t.owner = s.owner /\ t.matter = s.matter /\ t.name = s.name
  BY <1>2 DEF SearchRows
<1> HIDE DEF t
<1>4. SearchesInv'
  BY <1>1, <1>3 DEF AdminInv, SearchesInv
<1> QED
  BY <1>1, <1>4, SearchesMove

\* A deletion leaves the other saved searches as they are.
LEMMA DeleteSearchAdmin ==
  ASSUME AdminInv, NEW p \in DOMAIN users, NEW s \in saved, DeleteSearch(p, s)
  PROVE  AdminInv'
<1>1. /\ saved' = saved \ {s}
      /\ UNCHANGED <<parents, users, clients, matters, members, templates, copies>>
  BY DEF DeleteSearch
<1>2. SearchesInv'
  BY <1>1 DEF AdminInv, SearchesInv
<1> QED
  BY <1>1, <1>2, SearchesMove

\* A command that changes nothing.
LEMMA AdminStutters ==
  ASSUME AdminInv, UNCHANGED adminVars
  PROVE  AdminInv'
<1>1. SearchesInv'
  BY DEF adminVars, AdminInv, SearchesInv
<1> QED
  BY <1>1, SearchesMove DEF adminVars

\* One case per command of the next-state relation.
LEMMA AdminSteps ==
  ASSUME AdminInv, [AdminNext]_adminVars
  PROVE  AdminInv'
<1>1. ASSUME NEW p \in DOMAIN users, NEW t \in Tenants, NEW parent \in DOMAIN parents, NEW u \in Users,
             CreateTenant(p, t, parent, u)
      PROVE  AdminInv'
  BY <1>1, CreateTenantAdmin
<1>2. ASSUME NEW p \in DOMAIN users, NEW t \in DOMAIN parents, NEW u \in Users, CreateTenantUser(p, t, u)
      PROVE  AdminInv'
  BY <1>2, CreateTenantUserAdmin
<1>3. ASSUME NEW p \in DOMAIN users, NEW t \in DOMAIN parents, NEW c \in Clients, CreateClient(p, t, c)
      PROVE  AdminInv'
  BY <1>3, CreateClientAdmin
<1>4. ASSUME NEW p \in DOMAIN users, NEW c \in DOMAIN clients, NEW m \in Matters, CreateMatter(p, c, m)
      PROVE  AdminInv'
  BY <1>4, CreateMatterAdmin
<1>5. ASSUME NEW p \in DOMAIN users, NEW c \in DOMAIN clients, NEW m \in Matters, NEW template \in templates,
             CreateFromTemplate(p, c, m, template)
      PROVE  AdminInv'
  BY <1>5, CreateFromTemplateAdmin
<1>6. ASSUME NEW p \in DOMAIN users, NEW m \in DOMAIN matters, NEW k \in CustomFields,
             AddField(p, m, k) \/ ArchiveField(p, m, k)
      PROVE  AdminInv'
  BY <1>6, AddFieldAdmin, ArchiveFieldAdmin
<1>7. ASSUME NEW p \in DOMAIN users, NEW m \in DOMAIN matters, NEW key \in Groups,
             NEW scope \in {"MATTER", "PERSONAL"}, NEW fields \in SUBSET Usable(m),
             CreateMetadataGroup(p, m, key, scope, fields)
      PROVE  AdminInv'
  BY <1>7, CreateMetadataGroupAdmin
<1>8. ASSUME NEW p \in DOMAIN users, NEW m \in DOMAIN matters, NEW q \in Copies, NEW kind, NEW target,
             BeginCopy(q, p, m, kind, target)
      PROVE  AdminInv'
  BY <1>8, BeginCopyAdmin
<1>9. ASSUME NEW p \in DOMAIN users, NEW m \in DOMAIN matters, NEW name \in Searches, NEW v \in Visibilities,
             NEW shares \in SUBSET DOMAIN users, SaveSearch(p, m, name, v, shares)
      PROVE  AdminInv'
  BY <1>9, SaveSearchAdmin
<1>10. ASSUME NEW p \in DOMAIN users, NEW s \in saved, DeleteSearch(p, s)
       PROVE  AdminInv'
  BY <1>10, DeleteSearchAdmin
<1>11. ASSUME NEW p \in DOMAIN users, NEW s \in saved, NEW v \in Visibilities,
              NEW shares \in SUBSET DOMAIN users, UpdateSearch(p, s, v, shares)
       PROVE  AdminInv'
  BY <1>11, UpdateSearchAdmin
<1>12. ASSUME NEW q \in Copies, NEW scope, CreateMatterTemplate(q, scope)
       PROVE  AdminInv'
  BY <1>12, CreateMatterTemplateAdmin
<1>13. ASSUME NEW q \in Copies, NEW m \in Matters, CloneMatter(q, m)
       PROVE  AdminInv'
  BY <1>13, CloneMatterAdmin
<1>14. CASE UNCHANGED adminVars
  BY <1>14, AdminStutters
<1>15. CASE AdminNext
  BY <1>15, <1>1, <1>2, <1>3, <1>4, <1>5, <1>6, <1>7, <1>8, <1>9, <1>10, <1>11, <1>12, <1>13 DEF AdminNext
<1> QED
  BY <1>14, <1>15

\* In every state the invariant holds.
THEOREM AdminInvariant == AdminSpec => []AdminInv
  BY AdminBegins, AdminSteps, PTL DEF AdminSpec

\* However definitions and groups change while a configuration is read, each template can be
\* instantiated, each matter has the definitions that its groups name, and memberships stay
\* within a tenant.
THEOREM TenantsClosed == AdminSpec => []TenantsAreClosed
<1>1. AdminInv => TenantsAreClosed
  BY DEF AdminInv, TenantsAreClosed, TemplatesInv, ConfigurationOK, MattersInv, MatterOK, MembersInv
<1> QED
  BY <1>1, AdminInvariant, PTL

\* Users, clients and matters are of tenants that exist, and a user has one saved search of a
\* name in a matter.
THEOREM AdminTyped == AdminSpec => []AdminTypeOK
<1>1. AdminInv => AdminTypeOK
  BY DEF AdminInv, AdminTypeOK, TenantsInv, MattersInv, SearchesInv
<1> QED
  BY <1>1, AdminInvariant, PTL

-----------------------------------------------------------------------------
(* Sessions.                                                                 *)

\* The rows of the session store and the calls in progress.
Credentials == [failed : 0..MaxAttemptCount - 1, lock : LockStates]
SessionRows == [exists : BOOLEAN, token : Nat, revoked : BOOLEAN]
CallRows ==
    [pc : {"idle"}]
    \cup [pc : {"login"}, session : SignIns, read : Credentials, valid : BOOLEAN]
    \cup [pc : {"refresh"}, session : SignIns, read : SessionRows]

\* The values of the variables.
SessionsRowsInv ==
    /\ credential \in Credentials
    /\ sessions \in [SignIns -> SessionRows]
    /\ minted \in Nat
    /\ calls \in [Calls -> CallRows]

\* A session that is revoked was opened, and no token was given to two.
TokensInv ==
    /\ \A s \in SignIns : sessions[s].token \in 0..minted /\ (sessions[s].revoked => sessions[s].exists)
    /\ \A s \in SignIns, t \in SignIns :
          sessions[s].exists /\ sessions[t].exists /\ sessions[s].token = sessions[t].token => s = t

\* A sign-in in flight is of a session that nobody has, neither a request nor the table: it is
\* what keeps a late sign-in from opening a session that was signed out.
CallsInv ==
    \A c \in Calls :
        /\ calls[c].pc = "login" =>
              /\ ~sessions[calls[c].session].exists
              /\ \A d \in Calls : calls[d].pc = "login" /\ calls[d].session = calls[c].session => d = c
        /\ calls[c].pc = "refresh" => sessions[calls[c].session].exists

\* The sessions' rows, the tokens they hold and the calls that have read them.
SessionsInv == SessionsRowsInv /\ TokensInv /\ CallsInv

\* No session and no request.
LEMMA SessionsBegin == SessionsInit => SessionsInv
  BY SessionsAssumption
  DEF SessionsInit, SessionsInv, SessionsRowsInv, TokensInv, CallsInv, Credentials, SessionRows, CallRows,
      LockStates, NoSession, IdleCall

\* What is in a slot.
LEMMA CallFields ==
  ASSUME SessionsInv, NEW c \in Calls
  PROVE  /\ calls[c].pc = "login" => /\ calls[c].session \in SignIns
                                     /\ calls[c].read \in Credentials
                                     /\ calls[c].valid \in BOOLEAN
         /\ calls[c].pc = "refresh" => calls[c].session \in SignIns /\ calls[c].read \in SessionRows
  BY DEF SessionsInv, SessionsRowsInv, CallRows

\* A request that answers leaves its slot.
LEMMA Answered ==
  ASSUME SessionsInv, NEW c \in Calls, Respond(c)
  PROVE  /\ calls' \in [Calls -> CallRows]
         /\ calls'[c].pc = "idle"
         /\ \A d \in Calls : d # c => calls'[d] = calls[d]
  BY DEF SessionsInv, SessionsRowsInv, Respond, IdleCall, CallRows

\* A sign-in reads the credential and decides nothing.
LEMMA BeginLoginSessions ==
  ASSUME SessionsInv, NEW c \in Calls, NEW s \in SignIns, NEW correct \in BOOLEAN, BeginLogin(c, s, correct)
  PROVE  SessionsInv'
<1> DEFINE call == [pc |-> "login", session |-> s, read |-> credential,
                    valid |-> correct /\ credential.lock # "locked"]
<1>1. /\ ~sessions[s].exists
      /\ \A d \in Calls : calls[d].pc = "login" => calls[d].session # s
      /\ calls' = [calls EXCEPT ![c] = call]
      /\ UNCHANGED <<credential, sessions, minted>>
  BY DEF BeginLogin
<1>2. call \in CallRows
  BY DEF CallRows, SessionsInv, SessionsRowsInv
<1>3. call.pc = "login" /\ call.session = s
  OBVIOUS
<1> HIDE DEF call
<1>4. calls' \in [Calls -> CallRows]
  BY <1>1, <1>2 DEF SessionsInv, SessionsRowsInv
<1>5. \A d \in Calls : calls'[d] = IF d = c THEN call ELSE calls[d]
  BY <1>1 DEF SessionsInv, SessionsRowsInv
<1>6. CallsInv'
  BY <1>1, <1>3, <1>5 DEF SessionsInv, CallsInv
<1> QED
  BY <1>1, <1>4, <1>6 DEF SessionsInv, SessionsRowsInv, TokensInv

\* A wrong password counts a failure, and locks at the limit.
LEMMA RefuseLoginSessions ==
  ASSUME SessionsInv, NEW c \in Calls, RefuseLogin(c)
  PROVE  SessionsInv'
<1>1. calls[c].read \in Credentials
  BY CallFields DEF RefuseLogin
<1>2. credential \in Credentials
  BY DEF SessionsInv, SessionsRowsInv
<1>3. credential' \in Credentials
  BY <1>1, <1>2, SessionsAssumption DEF RefuseLogin, Credentials, LockStates
<1>4. UNCHANGED <<sessions, minted>> /\ Respond(c)
  BY DEF RefuseLogin
<1>5. CallsInv'
  BY <1>4, Answered DEF SessionsInv, CallsInv
<1> QED
  BY <1>3, <1>4, <1>5, Answered DEF SessionsInv, SessionsRowsInv, TokensInv

\* A right password opens a session with a token no session has had.
LEMMA AcceptLoginSessions ==
  ASSUME SessionsInv, NEW c \in Calls, AcceptLogin(c)
  PROVE  SessionsInv'
<1> DEFINE s == calls[c].session
           row == [exists |-> TRUE, token |-> minted + 1, revoked |-> FALSE]
<1>1. calls[c].pc = "login" /\ calls[c].read \in Credentials /\ s \in SignIns
  BY CallFields DEF AcceptLogin
<1>2. credential \in Credentials /\ minted \in Nat
  BY DEF SessionsInv, SessionsRowsInv
<1>3. credential' \in Credentials
  BY <1>1, <1>2, SessionsAssumption DEF AcceptLogin, Credentials, LockStates
<1>4. minted' = minted + 1 /\ sessions' = [sessions EXCEPT ![s] = row] /\ Respond(c)
  BY DEF AcceptLogin, Mint
<1>5. row \in SessionRows /\ row.exists /\ row.token = minted + 1 /\ ~row.revoked
  BY <1>2 DEF SessionRows
<1> HIDE DEF row
<1>6. sessions' \in [SignIns -> SessionRows] /\ \A t \in SignIns : sessions'[t] = IF t = s THEN row ELSE sessions[t]
  BY <1>1, <1>4, <1>5 DEF SessionsInv, SessionsRowsInv
<1>7. SessionsRowsInv'
  BY <1>2, <1>3, <1>4, <1>6, Answered DEF SessionsRowsInv
<1>8. TokensInv'
  <2>1. \A t \in SignIns : sessions[t].token \in 0..minted
    BY DEF SessionsInv, TokensInv
  <2> QED
    BY <1>2, <1>4, <1>5, <1>6, <2>1 DEF SessionsInv, TokensInv
<1>9. CallsInv'
  BY <1>1, <1>4, <1>5, <1>6, Answered, CallFields DEF SessionsInv, CallsInv
<1> QED
  BY <1>7, <1>8, <1>9 DEF SessionsInv

\* The time of a lock passes: the credential is as it was, and may be tried again.
LEMMA LockExpiresSessions ==
  ASSUME SessionsInv, LockExpires
  PROVE  SessionsInv'
  BY DEF LockExpires, SessionsInv, SessionsRowsInv, TokensInv, CallsInv, Credentials, LockStates

\* A refresh reads the session of its token.
LEMMA BeginRefreshSessions ==
  ASSUME SessionsInv, NEW c \in Calls, NEW s \in SignIns, NEW token, BeginRefresh(c, s, token)
  PROVE  SessionsInv'
<1> DEFINE call == [pc |-> "refresh", session |-> s, read |-> sessions[s]]
<1>1. /\ sessions[s].exists
      /\ calls' = [calls EXCEPT ![c] = call]
      /\ UNCHANGED <<credential, sessions, minted>>
  BY DEF BeginRefresh, IsOpen
<1>2. call \in CallRows
  BY DEF CallRows, SessionsInv, SessionsRowsInv
<1>3. call.pc = "refresh" /\ call.session = s
  OBVIOUS
<1> HIDE DEF call
<1>4. calls' \in [Calls -> CallRows]
  BY <1>1, <1>2 DEF SessionsInv, SessionsRowsInv
<1>5. \A d \in Calls : calls'[d] = IF d = c THEN call ELSE calls[d]
  BY <1>1 DEF SessionsInv, SessionsRowsInv
<1>6. CallsInv'
  BY <1>1, <1>3, <1>5 DEF SessionsInv, CallsInv
<1> QED
  BY <1>1, <1>4, <1>6 DEF SessionsInv, SessionsRowsInv, TokensInv

\* A refresh replaces the token it read by a new one, in an open session.
LEMMA CommitRefreshSessions ==
  ASSUME SessionsInv, NEW c \in Calls, CommitRefresh(c)
  PROVE  SessionsInv'
<1> DEFINE s == calls[c].session
           row == [sessions[s] EXCEPT !.token = minted + 1]
<1>1. calls[c].pc = "refresh" /\ s \in SignIns /\ sessions[s].exists
  BY CallFields DEF CommitRefresh, SessionsInv, CallsInv
<1>2. sessions[s] \in SessionRows /\ minted \in Nat
  BY <1>1 DEF SessionsInv, SessionsRowsInv
<1>3. minted' = minted + 1 /\ sessions' = [sessions EXCEPT ![s] = row] /\ Respond(c) /\ UNCHANGED credential
  BY DEF CommitRefresh, Mint, Rotated
<1>4. /\ row \in SessionRows /\ row.token = minted + 1
      /\ row.exists = sessions[s].exists /\ row.revoked = sessions[s].revoked
  BY <1>2 DEF SessionRows
<1> HIDE DEF row
<1>5. sessions' \in [SignIns -> SessionRows] /\ \A t \in SignIns : sessions'[t] = IF t = s THEN row ELSE sessions[t]
  BY <1>1, <1>3, <1>4 DEF SessionsInv, SessionsRowsInv
<1>6. SessionsRowsInv'
  BY <1>2, <1>3, <1>5, Answered DEF SessionsInv, SessionsRowsInv
<1>7. TokensInv'
  <2>1. \A t \in SignIns : sessions[t].token \in 0..minted
    BY DEF SessionsInv, TokensInv
  <2> QED
    BY <1>2, <1>3, <1>4, <1>5, <2>1 DEF SessionsInv, TokensInv
<1>8. CallsInv'
  <2>1. \A t \in SignIns : sessions'[t].exists = sessions[t].exists
    BY <1>4, <1>5
  <2>2. calls'[c].pc = "idle" /\ \A d \in Calls : d # c => calls'[d] = calls[d]
    BY <1>3, Answered
  <2>3. \A d \in Calls : calls[d].pc \in {"login", "refresh"} => calls[d].session \in SignIns
    BY CallFields
  <2> QED
    BY <2>1, <2>2, <2>3 DEF SessionsInv, CallsInv
<1> QED
  BY <1>6, <1>7, <1>8 DEF SessionsInv

\* A logout revokes the session and leaves its token.
LEMMA LogoutSessions ==
  ASSUME SessionsInv, NEW s \in SignIns, Logout(s)
  PROVE  SessionsInv'
<1> DEFINE row == [sessions[s] EXCEPT !.revoked = TRUE]
<1>1. /\ sessions[s].exists /\ sessions' = [sessions EXCEPT ![s] = row]
      /\ UNCHANGED <<credential, minted, calls>>
  BY DEF Logout, IsOpen
<1>2. sessions[s] \in SessionRows
  BY DEF SessionsInv, SessionsRowsInv
<1>3. row \in SessionRows /\ row.token = sessions[s].token /\ row.exists = sessions[s].exists /\ row.revoked
  BY <1>2 DEF SessionRows
<1> HIDE DEF row
<1>4. sessions' \in [SignIns -> SessionRows] /\ \A t \in SignIns : sessions'[t] = IF t = s THEN row ELSE sessions[t]
  BY <1>1, <1>3 DEF SessionsInv, SessionsRowsInv
<1>5. CallsInv'
  BY <1>1, <1>3, <1>4, CallFields DEF SessionsInv, CallsInv
<1>6. SessionsRowsInv'
  BY <1>1, <1>4 DEF SessionsInv, SessionsRowsInv
<1>7. TokensInv'
  BY <1>1, <1>3, <1>4 DEF SessionsInv, TokensInv
<1> QED
  BY <1>5, <1>6, <1>7 DEF SessionsInv

\* One case per request.
LEMMA SessionsStep ==
  ASSUME SessionsInv, [SessionsNext]_sessionVars
  PROVE  SessionsInv'
<1>1. CASE UNCHANGED sessionVars
  BY <1>1 DEF sessionVars, SessionsInv, SessionsRowsInv, TokensInv, CallsInv
<1>2. CASE SessionsNext
  BY <1>2, BeginLoginSessions, RefuseLoginSessions, AcceptLoginSessions, LockExpiresSessions,
     BeginRefreshSessions, CommitRefreshSessions, LogoutSessions DEF SessionsNext
<1> QED
  BY <1>1, <1>2

\* A step that writes a session's row keeps it revoked, and gives it no token but a new one.
LEMMA RevokedStays ==
  ASSUME SessionsInv, SessionsNext, NEW s \in SignIns
  PROVE  /\ sessions[s].revoked => sessions'[s].revoked
         /\ sessions'[s].token # sessions[s].token => sessions'[s].token = minted'
<1>1. sessions \in [SignIns -> SessionRows]
  BY DEF SessionsInv, SessionsRowsInv
<1>2. ASSUME NEW c \in Calls, AcceptLogin(c)
      PROVE  /\ sessions[s].revoked => sessions'[s].revoked
             /\ sessions'[s].token # sessions[s].token => sessions'[s].token = minted'
  <2>1. /\ calls[c].session \in SignIns /\ ~sessions[calls[c].session].revoked
        /\ sessions' = [sessions EXCEPT ![calls[c].session] =
                            [exists |-> TRUE, token |-> minted', revoked |-> FALSE]]
    BY <1>2, CallFields DEF AcceptLogin, SessionsInv, CallsInv, TokensInv
  <2> QED
    BY <1>1, <2>1
<1>3. ASSUME NEW c \in Calls, CommitRefresh(c)
      PROVE  /\ sessions[s].revoked => sessions'[s].revoked
             /\ sessions'[s].token # sessions[s].token => sessions'[s].token = minted'
  <2>1. /\ calls[c].session \in SignIns
        /\ sessions' = [sessions EXCEPT ![calls[c].session] =
                            [sessions[calls[c].session] EXCEPT !.token = minted']]
    BY <1>3, CallFields DEF CommitRefresh, Rotated
  <2> QED
    BY <1>1, <2>1 DEF SessionRows
<1>4. ASSUME NEW t \in SignIns, Logout(t)
      PROVE  /\ sessions[s].revoked => sessions'[s].revoked
             /\ sessions'[s].token # sessions[s].token => sessions'[s].token = minted'
  <2>1. sessions' = [sessions EXCEPT ![t] = [sessions[t] EXCEPT !.revoked = TRUE]]
    BY <1>4 DEF Logout
  <2> QED
    BY <1>1, <2>1 DEF SessionRows
<1>5. CASE UNCHANGED sessions
  BY <1>5
<1> QED
  BY <1>2, <1>3, <1>4, <1>5 DEF SessionsNext, BeginLogin, BeginRefresh, RefuseLogin, LockExpires

\* In every state the invariant holds.
THEOREM SessionsInvariant == SessionsSpec => []SessionsInv
  BY SessionsBegin, SessionsStep, PTL DEF SessionsSpec

\* A sign-out is final: neither a refresh nor a sign-in that was in flight opens the session
\* again, and the rows keep their tokens in the order in which they were minted.
THEOREM LogoutFinal == SessionsSpec => LogoutIsFinal
<1>1. SessionsInv /\ [SessionsNext]_sessionVars =>
        [\A s \in SignIns : /\ sessions[s].revoked => sessions'[s].revoked
                            /\ sessions'[s].token # sessions[s].token => sessions'[s].token = minted']_sessionVars
  BY RevokedStays
<1> QED
  BY <1>1, SessionsInvariant, PTL DEF SessionsSpec, LogoutIsFinal

\* The failed attempts stay below the limit, and no token was given to two sessions.
THEOREM SessionsTyped == SessionsSpec => []SessionsTypeOK
<1>1. SessionsInv => SessionsTypeOK
  BY DEF SessionsInv, SessionsRowsInv, TokensInv, SessionsTypeOK, Credentials
<1> QED
  BY <1>1, SessionsInvariant, PTL

-----------------------------------------------------------------------------
(* The histories of Matter Definitions and agents.                          *)

\* The states of a version, and the commands that may be in progress.
VersionStatus == {"DRAFT", "PUBLISHED", "RETIRED"}

Commands ==
    [pc : {"idle"}]
    \cup [pc : {"first", "edit"}, based : Nat, seen : Nat]
    \cup [pc : {"version"}, seen : Nat]
    \cup [pc : {"publish"}, version : Nat, prior : Nat]

\* The values of the variables, and that the rows are as many as their counter says.
RowsInv ==
    /\ definition \in [current : Nat, published : Nat, rows : Seq([number : Nat, based : Nat])]
    /\ agent \in [current : Nat, published : Nat, status : {"ACTIVE", "SUSPENDED"},
                  rows : Seq(VersionStatus)]
    /\ editors \in [Editors -> Commands]
    /\ RevisionsTypeOK

\* An edit under the lock of the definition's row has read what is still current, and nobody
\* else holds the lock.  A first edit, which has no row to lock, has read that there is none.
EditInv ==
    \A e \in Editors :
        /\ editors[e].pc = "first" => editors[e].seen = 0 /\ editors[e].based = 0
        /\ editors[e].pc = "edit" =>
              /\ editors[e].seen = definition.current
              /\ editors[e].based \in {0, definition.current}
              /\ definition.current # 0
              /\ \A f \in Editors \ {e} : editors[f].pc # "edit"

\* The same for the lock of the agent's row.
AgentInv ==
    \A e \in Editors :
        /\ editors[e].pc = "version" => editors[e].seen = agent.current
        /\ editors[e].pc = "publish" =>
              editors[e].version \in 1..agent.current /\ editors[e].prior = agent.published
        /\ editors[e].pc \in {"version", "publish"} =>
              \A f \in Editors \ {e} : editors[f].pc \notin {"version", "publish"}

\* The inductive invariant: the rows, the commands in progress, and both histories.
RevisionsInv == RowsInv /\ EditInv /\ AgentInv /\ HistoriesAreSerial

\* The system starts without a definition and with an agent that has one draft.
LEMMA InitIsSerial == ASSUME RevisionsInit PROVE RevisionsInv
  BY DEF RevisionsInit, RevisionsInv, RowsInv, RevisionsTypeOK, EditInv, AgentInv, HistoriesAreSerial,
         NoDefinition, NewAgent, IdleEditor, Commands, VersionStatus

\* The begin of an edit takes the lock, or finds no row.
LEMMA BeginEditIsSerial ==
  ASSUME RevisionsInv, NEW e \in Editors, NEW based \in 0..MaxVersions, BeginEdit(e, based)
  PROVE  RevisionsInv'
<1> DEFINE command == [pc |-> IF definition.current = 0 THEN "first" ELSE "edit",
                       based |-> based, seen |-> definition.current]
<1>1. /\ editors[e].pc = "idle" /\ editors' = [editors EXCEPT ![e] = command]
      /\ UNCHANGED <<definition, agent>>
      /\ definition.current # 0 => \A f \in Editors : editors[f].pc # "edit"
      /\ based \in {0, definition.current}
  BY DEF BeginEdit, Begin, RowFree
<1>2. command \in Commands
  BY DEF Commands, RevisionsInv, RowsInv
<1>3. RowsInv'
  BY <1>1, <1>2 DEF RevisionsInv, RowsInv, RevisionsTypeOK
<1>4. EditInv'
  BY <1>1 DEF RevisionsInv, RowsInv, RevisionsTypeOK, EditInv
<1>5. AgentInv'
  BY <1>1 DEF RevisionsInv, RowsInv, RevisionsTypeOK, AgentInv
<1>6. HistoriesAreSerial'
  BY <1>1 DEF RevisionsInv, HistoriesAreSerial
<1> QED BY <1>3, <1>4, <1>5, <1>6 DEF RevisionsInv

\* An edit appends the next revision, or finds that another was first.
LEMMA CommitEditIsSerial ==
  ASSUME RevisionsInv, NEW e \in Editors, CommitEdit(e)
  PROVE  RevisionsInv'
<1>1. /\ editors[e].pc \in {"first", "edit"}
      /\ editors' = [editors EXCEPT ![e] = IdleEditor] /\ agent' = agent
  BY DEF CommitEdit, End
<1>2. /\ editors[e].seen \in Nat /\ editors[e].based \in Nat
      /\ IdleEditor \in Commands
  BY <1>1 DEF RevisionsInv, RowsInv, RevisionsTypeOK, Commands, IdleEditor
<1>3. AgentInv'
  BY <1>1 DEF RevisionsInv, RowsInv, RevisionsTypeOK, AgentInv, IdleEditor
<1>4. CASE editors[e].pc = "first" /\ definition.current # 0
  <2>1. definition' = definition
    BY <1>4 DEF CommitEdit
  <2>2. RowsInv'
    BY <1>1, <1>2, <2>1 DEF RevisionsInv, RowsInv, RevisionsTypeOK
  <2>3. EditInv'
    BY <1>1, <2>1 DEF RevisionsInv, RowsInv, RevisionsTypeOK, EditInv, IdleEditor
  <2>4. HistoriesAreSerial'
    BY <1>1, <2>1 DEF RevisionsInv, HistoriesAreSerial
  <2> QED BY <1>3, <2>2, <2>3, <2>4 DEF RevisionsInv
<1>5. CASE ~(editors[e].pc = "first" /\ definition.current # 0)
  <2> DEFINE row == [number |-> editors[e].seen + 1, based |-> editors[e].based]
  <2>1. definition' = [definition EXCEPT !.current = editors[e].seen + 1, !.rows = Append(@, row)]
    BY <1>5 DEF CommitEdit
  <2>2. /\ editors[e].seen = Len(definition.rows)
        /\ editors[e].based \in {0, editors[e].seen}
        /\ definition.current = Len(definition.rows)
    BY <1>1, <1>5 DEF RevisionsInv, RowsInv, RevisionsTypeOK, EditInv
  <2>3. /\ definition.rows \in Seq([number : Nat, based : Nat])
        /\ row \in [number : Nat, based : Nat]
    BY <1>2 DEF RevisionsInv, RowsInv
  <2>4. /\ definition'.rows = Append(definition.rows, row)
        /\ definition'.current = Len(definition.rows) + 1
        /\ definition'.published = definition.published
    BY <2>1, <2>2 DEF RevisionsInv, RowsInv, RevisionsTypeOK
  <2>5. /\ Len(definition'.rows) = Len(definition.rows) + 1
        /\ definition'.rows \in Seq([number : Nat, based : Nat])
        /\ \A i \in 1..Len(definition.rows) : definition'.rows[i] = definition.rows[i]
        /\ definition'.rows[Len(definition.rows) + 1] = row
    BY <2>3, <2>4
  <2>6. RowsInv'
    <3>1. definition' \in [current : Nat, published : Nat, rows : Seq([number : Nat, based : Nat])]
      <4>1. definition' = [current |-> definition'.current, published |-> definition'.published,
                           rows |-> definition'.rows]
        <5> HIDE DEF row
        <5> QED BY <2>1 DEF RevisionsInv, RowsInv
      <4>2. definition'.current \in Nat /\ definition'.published \in Nat
        BY <2>3, <2>4 DEF RevisionsInv, RowsInv
      <4> QED BY <2>5, <4>1, <4>2
    <3>2. editors' \in [Editors -> Commands]
      BY <1>1, <1>2 DEF RevisionsInv, RowsInv
    <3>3. Len(definition.rows) \in Nat
      BY <2>3
    <3>4. definition'.current = Len(definition'.rows) /\ definition'.published \in 0..definition'.current
      BY <2>2, <2>4, <2>5, <3>3 DEF RevisionsInv, RowsInv, RevisionsTypeOK
    <3> QED BY <1>1, <3>1, <3>2, <3>4 DEF RevisionsInv, RowsInv, RevisionsTypeOK
  <2>7. EditInv'
    <3> SUFFICES ASSUME NEW f \in Editors
                 PROVE  /\ editors'[f].pc # "edit"
                        /\ editors'[f].pc = "first" => editors'[f].seen = 0 /\ editors'[f].based = 0
      BY DEF EditInv
    <3>1. CASE f = e
      BY <1>1, <3>1 DEF RevisionsInv, RowsInv, RevisionsTypeOK, IdleEditor
    <3>2. CASE f # e
      BY <1>1, <1>5, <3>2 DEF RevisionsInv, RowsInv, RevisionsTypeOK, EditInv
    <3> QED BY <3>1, <3>2
  <2>8. HistoriesAreSerial'
    <3>1. \A i \in DOMAIN definition'.rows :
              definition'.rows[i].number = i /\ definition'.rows[i].based \in {0, i - 1}
      <4> SUFFICES ASSUME NEW i \in 1..(Len(definition.rows) + 1)
                   PROVE  definition'.rows[i].number = i /\ definition'.rows[i].based \in {0, i - 1}
        BY SMTT(30), <2>3, <2>5
      <4>1. CASE i = Len(definition.rows) + 1
        BY <2>2, <2>3, <2>5, <4>1
      <4>2. CASE i \in 1..Len(definition.rows)
        <5>1. i \in DOMAIN definition.rows
          BY <2>3, <4>2
        <5>2. definition.rows[i].number = i /\ definition.rows[i].based \in {0, i - 1}
          BY <5>1 DEF RevisionsInv, HistoriesAreSerial
        <5> QED BY <2>5, <4>2, <5>2
      <4> QED BY <2>3, <4>1, <4>2
    <3> QED BY <1>1, <3>1 DEF RevisionsInv, HistoriesAreSerial
  <2> QED BY <1>3, <2>6, <2>7, <2>8 DEF RevisionsInv
<1> QED BY <1>4, <1>5

\* A publication only points to a revision.
LEMMA PublishRevisionIsSerial ==
  ASSUME RevisionsInv, NEW n \in 1..MaxVersions, PublishRevision(n)
  PROVE  RevisionsInv'
<1>1. /\ definition' = [definition EXCEPT !.published = n] /\ agent' = agent /\ editors' = editors
      /\ n \in 1..Len(definition.rows)
  BY DEF PublishRevision
<1>2. /\ definition'.current = definition.current /\ definition'.rows = definition.rows
      /\ definition'.published = n /\ n \in Nat /\ n \in 0..definition.current
  BY <1>1 DEF RevisionsInv, RowsInv, RevisionsTypeOK
<1>3. RowsInv'
  BY <1>1, <1>2 DEF RevisionsInv, RowsInv, RevisionsTypeOK
<1> QED BY <1>1, <1>2, <1>3 DEF RevisionsInv, EditInv, AgentInv, HistoriesAreSerial

\* What takes the lock of an agent's row remembers what the row says.
LEMMA LockAgentIsSerial ==
  ASSUME RevisionsInv, NEW e \in Editors, NEW command \in Commands, LockAgent(e, command),
         \/ command.pc = "version" /\ command.seen = agent.current
         \/ /\ command.pc = "publish" /\ command.version \in 1..agent.current
            /\ command.prior = agent.published
  PROVE  RevisionsInv'
<1>1. /\ editors[e].pc = "idle" /\ editors' = [editors EXCEPT ![e] = command]
      /\ UNCHANGED <<definition, agent>>
      /\ \A f \in Editors : editors[f].pc \notin {"version", "publish"}
  BY DEF LockAgent, Begin, RowFree
<1>2. RowsInv'
  BY <1>1 DEF RevisionsInv, RowsInv, RevisionsTypeOK
<1>3. EditInv'
  BY <1>1 DEF RevisionsInv, RowsInv, RevisionsTypeOK, EditInv
<1>4. AgentInv'
  BY <1>1 DEF RevisionsInv, RowsInv, RevisionsTypeOK, AgentInv
<1>5. HistoriesAreSerial'
  BY <1>1 DEF RevisionsInv, HistoriesAreSerial
<1> QED BY <1>2, <1>3, <1>4, <1>5 DEF RevisionsInv

\* A version is drafted, or one is published and the one before it retired.
LEMMA CommitAgentIsSerial ==
  ASSUME RevisionsInv, NEW e \in Editors, CommitVersion(e) \/ CommitPublish(e)
  PROVE  RevisionsInv'
<1>1. /\ editors[e].pc \in {"version", "publish"}
      /\ editors' = [editors EXCEPT ![e] = IdleEditor] /\ definition' = definition
  BY DEF CommitVersion, CommitPublish, End
<1>2. IdleEditor \in Commands
  BY DEF Commands, IdleEditor
<1>3. EditInv'
  BY <1>1 DEF RevisionsInv, RowsInv, RevisionsTypeOK, EditInv, IdleEditor
<1>4. AgentInv'
  <2> SUFFICES ASSUME NEW f \in Editors
               PROVE  editors'[f].pc \notin {"version", "publish"}
    BY DEF AgentInv
  <2>1. CASE f = e
    BY <1>1, <2>1 DEF RevisionsInv, RowsInv, RevisionsTypeOK, IdleEditor
  <2>2. CASE f # e
    BY <1>1, <2>2 DEF RevisionsInv, RowsInv, RevisionsTypeOK, AgentInv
  <2> QED BY <2>1, <2>2
<1>5. CASE CommitVersion(e)
  <2>1. /\ agent' = [agent EXCEPT !.current = editors[e].seen + 1, !.rows = Append(@, "DRAFT")]
        /\ editors[e].pc = "version"
    BY <1>5 DEF CommitVersion
  <2>2. /\ editors[e].seen = Len(agent.rows) /\ agent.current = Len(agent.rows)
        /\ agent.published \in 0..Len(agent.rows)
    BY <2>1 DEF RevisionsInv, RowsInv, RevisionsTypeOK, AgentInv
  <2>3. agent.rows \in Seq(VersionStatus) /\ "DRAFT" \in VersionStatus /\ Len(agent.rows) \in Nat
    BY DEF RevisionsInv, RowsInv, VersionStatus
  <2>4. /\ agent'.rows = Append(agent.rows, "DRAFT") /\ agent'.current = Len(agent.rows) + 1
        /\ agent'.published = agent.published
    BY <2>1, <2>2 DEF RevisionsInv, RowsInv
  <2>5. /\ agent'.rows \in Seq(VersionStatus) /\ Len(agent'.rows) = Len(agent.rows) + 1
        /\ \A i \in 1..Len(agent.rows) : agent'.rows[i] = agent.rows[i]
        /\ agent'.rows[Len(agent.rows) + 1] = "DRAFT"
    BY <2>3, <2>4
  <2>6. RowsInv'
    <3>1. agent' \in [current : Nat, published : Nat, status : {"ACTIVE", "SUSPENDED"},
                      rows : Seq(VersionStatus)]
      <4>1. agent' = [current |-> agent'.current, published |-> agent'.published,
                      status |-> agent'.status, rows |-> agent'.rows]
        BY <2>1 DEF RevisionsInv, RowsInv
      <4>2. /\ agent'.current \in Nat /\ agent'.published \in Nat
            /\ agent'.status \in {"ACTIVE", "SUSPENDED"}
        BY <2>1, <2>3, <2>4 DEF RevisionsInv, RowsInv
      <4> QED BY <2>5, <4>1, <4>2
    <3>2. editors' \in [Editors -> Commands]
      BY <1>1, <1>2 DEF RevisionsInv, RowsInv
    <3>3. agent'.current = Len(agent'.rows) /\ agent'.published \in 0..agent'.current
      BY <2>2, <2>3, <2>4, <2>5
    <3> QED BY <1>1, <3>1, <3>2, <3>3 DEF RevisionsInv, RowsInv, RevisionsTypeOK
  <2>7. HistoriesAreSerial'
    <3>1. ASSUME NEW i \in DOMAIN agent'.rows
          PROVE  agent'.rows[i] = "PUBLISHED" <=> i = agent'.published
      <4>1. i \in 1..(Len(agent.rows) + 1)
        BY <2>5
      <4>2. CASE i = Len(agent.rows) + 1
        BY <2>2, <2>3, <2>4, <2>5, <4>2
      <4>3. CASE i \in 1..Len(agent.rows)
        <5>1. i \in DOMAIN agent.rows
          BY <2>3, <4>3
        <5>2. agent.rows[i] = "PUBLISHED" <=> i = agent.published
          BY <5>1 DEF RevisionsInv, HistoriesAreSerial
        <5> QED BY <2>4, <2>5, <4>3, <5>2
      <4> QED BY <2>3, <4>1, <4>2, <4>3
    <3> QED BY <1>1, <3>1 DEF RevisionsInv, HistoriesAreSerial
  <2> QED BY <1>3, <1>4, <2>6, <2>7 DEF RevisionsInv
<1>6. CASE CommitPublish(e)
  <2> DEFINE rows == [i \in DOMAIN agent.rows |->
                        IF i = editors[e].version THEN "PUBLISHED"
                        ELSE IF i = editors[e].prior THEN "RETIRED" ELSE agent.rows[i]]
  <2>1. /\ agent' = [agent EXCEPT !.published = editors[e].version, !.rows = rows]
        /\ editors[e].pc = "publish"
    BY <1>6 DEF CommitPublish, RevisionsInv, RowsInv
  <2>2. /\ editors[e].version \in 1..Len(agent.rows) /\ editors[e].prior = agent.published
        /\ agent.current = Len(agent.rows)
    BY <2>1 DEF RevisionsInv, RowsInv, RevisionsTypeOK, AgentInv
  <2>3. agent.rows \in Seq(VersionStatus) /\ Len(agent.rows) \in Nat
    BY DEF RevisionsInv, RowsInv
  <2>4. /\ DOMAIN agent.rows = 1..Len(agent.rows)
        /\ \A i \in 1..Len(agent.rows) : agent.rows[i] \in VersionStatus
    BY <2>3
  <2>5. rows \in [1..Len(agent.rows) -> VersionStatus]
    BY <2>4 DEF VersionStatus
  <2>6. rows \in Seq(VersionStatus) /\ Len(rows) = Len(agent.rows)
    <3> HIDE DEF rows
    <3> QED BY <2>3, <2>5
  <2>7. /\ agent'.rows = rows /\ agent'.current = agent.current
        /\ agent'.published = editors[e].version
    BY <2>1 DEF RevisionsInv, RowsInv
  <2>8. RowsInv'
    <3> HIDE DEF rows
    <3>1. agent' \in [current : Nat, published : Nat, status : {"ACTIVE", "SUSPENDED"},
                      rows : Seq(VersionStatus)]
      <4>1. agent' = [current |-> agent'.current, published |-> agent'.published,
                      status |-> agent'.status, rows |-> agent'.rows]
        BY <2>1 DEF RevisionsInv, RowsInv
      <4>2. /\ agent'.current \in Nat /\ agent'.published \in Nat
            /\ agent'.status \in {"ACTIVE", "SUSPENDED"}
        BY <2>1, <2>2, <2>3, <2>7 DEF RevisionsInv, RowsInv
      <4> QED BY <2>6, <2>7, <4>1, <4>2
    <3>2. editors' \in [Editors -> Commands]
      BY <1>1, <1>2 DEF RevisionsInv, RowsInv
    <3>3. agent'.current = Len(agent'.rows) /\ agent'.published \in 0..agent'.current
      BY <2>2, <2>3, <2>6, <2>7
    <3> QED BY <1>1, <3>1, <3>2, <3>3 DEF RevisionsInv, RowsInv, RevisionsTypeOK
  <2>9. HistoriesAreSerial'
    <3>1. ASSUME NEW i \in DOMAIN rows
          PROVE  rows[i] = "PUBLISHED" <=> i = editors[e].version
      BY <2>2 DEF RevisionsInv, HistoriesAreSerial
    <3> HIDE DEF rows
    <3> QED BY <1>1, <2>7, <3>1 DEF RevisionsInv, HistoriesAreSerial
  <2> QED BY <1>3, <1>4, <2>8, <2>9 DEF RevisionsInv
<1> QED BY <1>5, <1>6

\* A suspension waits for the lock of the row and leaves the versions alone.
LEMMA UpdateAgentIsSerial ==
  ASSUME RevisionsInv, NEW status \in {"ACTIVE", "SUSPENDED"}, UpdateAgent(status)
  PROVE  RevisionsInv'
<1>1. agent' = [agent EXCEPT !.status = status] /\ definition' = definition /\ editors' = editors
  BY DEF UpdateAgent
<1>2. /\ agent'.current = agent.current /\ agent'.rows = agent.rows
      /\ agent'.published = agent.published
  BY <1>1 DEF RevisionsInv, RowsInv
<1>3. RowsInv'
  BY <1>1, <1>2 DEF RevisionsInv, RowsInv, RevisionsTypeOK
<1> QED BY <1>1, <1>2, <1>3 DEF RevisionsInv, EditInv, AgentInv, HistoriesAreSerial

\* Every step keeps the invariant.
LEMMA StepIsSerial ==
  ASSUME RevisionsInv, [RevisionsNext]_revisionVars
  PROVE  RevisionsInv'
<1>1. CASE UNCHANGED revisionVars
  BY <1>1 DEF revisionVars, RevisionsInv, RowsInv, RevisionsTypeOK, EditInv, AgentInv,
              HistoriesAreSerial
<1>2. ASSUME NEW e \in Editors, NEW based \in 0..MaxVersions, BeginEdit(e, based)
      PROVE  RevisionsInv'
  BY <1>2, BeginEditIsSerial
<1>3. ASSUME NEW e \in Editors, NEW n \in 1..MaxVersions, BeginPublish(e, n)
      PROVE  RevisionsInv'
  <2> DEFINE command == [pc |-> "publish", version |-> n, prior |-> agent.published]
  <2>1. /\ LockAgent(e, command) /\ n \in 1..agent.current
    BY <1>3 DEF BeginPublish, RevisionsInv, RowsInv, RevisionsTypeOK
  <2>2. command \in Commands
    BY <1>3, RevisionsAssumption DEF Commands, RevisionsInv, RowsInv
  <2> QED BY <2>1, <2>2, LockAgentIsSerial
<1>4. ASSUME NEW e \in Editors, BeginVersion(e)
      PROVE  RevisionsInv'
  <2> DEFINE command == [pc |-> "version", seen |-> agent.current]
  <2>1. LockAgent(e, command)
    BY <1>4 DEF BeginVersion
  <2>2. command \in Commands
    BY DEF Commands, RevisionsInv, RowsInv
  <2> QED BY <2>1, <2>2, LockAgentIsSerial
<1>5. ASSUME NEW e \in Editors, CommitEdit(e)
      PROVE  RevisionsInv'
  BY <1>5, CommitEditIsSerial
<1>6. ASSUME NEW e \in Editors, CommitVersion(e) \/ CommitPublish(e)
      PROVE  RevisionsInv'
  BY <1>6, CommitAgentIsSerial
<1>7. ASSUME NEW n \in 1..MaxVersions, PublishRevision(n)
      PROVE  RevisionsInv'
  BY <1>7, PublishRevisionIsSerial
<1>8. ASSUME NEW status \in {"ACTIVE", "SUSPENDED"}, UpdateAgent(status)
      PROVE  RevisionsInv'
  BY <1>8, UpdateAgentIsSerial
<1> QED BY <1>1, <1>2, <1>3, <1>4, <1>5, <1>6, <1>7, <1>8 DEF RevisionsNext

\* The counters of the definition and of the agent count their versions, and what is
\* published is one of them, for any number of commands in flight.
THEOREM RevisionsTyped == RevisionsSpec => []RevisionsTypeOK
<1>1. RevisionsInit => RevisionsInv
  BY InitIsSerial
<1>2. RevisionsInv /\ [RevisionsNext]_revisionVars => RevisionsInv'
  BY StepIsSerial
<1>3. RevisionsInv => RevisionsTypeOK
  BY DEF RevisionsInv, RowsInv
<1> QED BY <1>1, <1>2, <1>3, PTL DEF RevisionsSpec

\* No edit of a Matter Definition is lost and an agent has one published version, the one its
\* pointer names, for any number of commands in flight.
THEOREM HistoriesSerial == RevisionsSpec => []HistoriesAreSerial
<1>1. RevisionsInit => RevisionsInv
  BY InitIsSerial
<1>2. RevisionsInv /\ [RevisionsNext]_revisionVars => RevisionsInv'
  BY StepIsSerial
<1>3. RevisionsInv => HistoriesAreSerial
  BY DEF RevisionsInv
<1> QED BY <1>1, <1>2, <1>3, PTL DEF RevisionsSpec
=============================================================================

----------------------------- MODULE MatterImport -----------------------------
(***************************************************************************)
(* The durable import of a collection's items into a matter.               *)
(*                                                                         *)
(*   app/routers/matter_imports.py       create and cancel requests        *)
(*   app/workflows/matter_import.py      the DBOS workflow and its batches *)
(*   app/matter_imports.py               the transactions of a batch       *)
(*   app/artifact_gateway.py, artifact_service/selections.py               *)
(*                                       the frozen selection              *)
(*                                                                         *)
(* Nothing locks the job row: a session reads it, and when it commits it   *)
(* updates the columns that it changed, whatever was committed in between. *)
(* One action is therefore the read or the write of a transaction, and     *)
(* `seen' keeps the status that the session loaded.                        *)
(***************************************************************************)
EXTENDS CollectionStore, Sums, Sequences, SequencesExt

CONSTANTS
    ImportBatchSize,    \* matter_import_batch_size
    MaxBatches,         \* bound on the batches of one import
    Unimportable,       \* items with a custodian that the client does not have
    Cancelable,         \* the imports that a user may cancel
    MaxImportFaults         \* bound on the restarts and outages of steps

ASSUME ImportAssumption ==
    /\ ImportBatchSize \in Nat \ {0}
    /\ MaxBatches \in Nat
    /\ Cardinality(ItemArtifacts) <= ImportBatchSize * MaxBatches
    /\ Unimportable \subseteq ItemArtifacts
    /\ Cancelable \subseteq Imports
    /\ MaxImportFaults \in Nat

VARIABLES
    batchRow,   \* Core db: MatterDocumentImportBatch rows
    iwf,        \* progress of each import workflow (and of the request before it)
    child,      \* progress of each batch workflow
    cancel,     \* progress of each cancel request
    halted,     \* DBOS: imports whose workflows were canceled
    importFaults    \* restarts and outages so far

importVars == <<batchRow, iwf, child, cancel, halted, importFaults>>

Batches == 1..MaxBatches

TerminalImportStatus == {"COMPLETED", "FAILED", "CANCELED"}

ImportPC == {"none", "accepted", "freeze", "mark", "select", "insert", "frozen", "run",
             "drop", "load", "cleanup", "await", "complete", "finish", "fail",
             "failwrite", "ended", "halted"}

ChildPC == {"none", "queued", "commit", "progress", "write", "done", "error", "halted"}

NoBatch == [status |-> "NONE", items |-> 0, added |-> 0, duplicate |-> 0]
NoImportWorkflow == [pc |-> "none", seen |-> "NONE", next |-> 0, total |-> 0]
NoChild == [pc |-> "none", items |-> {}, known |-> {}, seen |-> NoCounts, totals |-> NoCounts]
NoCancel == [pc |-> "idle", seen |-> "NONE", frozen |-> FALSE]

ImportInit ==
    /\ batchRow = [i \in Imports |-> [k \in Batches |-> NoBatch]]
    /\ iwf = [i \in Imports |-> NoImportWorkflow]
    /\ child = [i \in Imports |-> [k \in Batches |-> NoChild]]
    /\ cancel = [i \in Imports |-> NoCancel]
    /\ halted = {}
    /\ importFaults = 0

-----------------------------------------------------------------------------
ImportAt(i, pc) == iwf[i].pc = pc
ImportGoto(i, pc) == iwf' = [iwf EXCEPT ![i].pc = pc]

\* A session that loaded the status `seen' and assigned `new' updates the column if they differ.
Written(i, seen, new) == IF seen = new THEN importJob[i].status ELSE new

RemoveSelection(i) == selection' = [selection EXCEPT ![i] = NoSelection]

\* The items that import i has linked to its matter, or any other import has.
InMatter(m) == {d.item : d \in {e \in docs : e.matter = m}}

Count(i, field) ==
    SumTo([k \in Batches |-> IF batchRow[i][k].status = "COMPLETED" THEN batchRow[i][k][field] ELSE 0],
          MaxBatches)

\* The sums over the completed batches that refresh_progress stores in the job.
BatchTotals(i) == [processed |-> Count(i, "items"),
                   added     |-> Count(i, "added"),
                   duplicate |-> Count(i, "duplicate")]

\* The columns of the job after a session that loaded `seen' assigned `totals' to them.
Merged(i, seen, totals) ==
    [f \in {"processed", "added", "duplicate"} |->
        IF seen[f] = totals[f] THEN importJob[i].counts[f] ELSE totals[f]]

-----------------------------------------------------------------------------
(* create_document_import.                                                  *)

\* ensure_collection_scope: the collection exists and is not being deleted.
RequestImport(i, c, m) ==
    /\ ImportAt(i, "none")
    /\ collection[c] = "OPEN"
    /\ importJob' = [importJob EXCEPT ![i].source = c, ![i].matter = m]
    /\ ImportGoto(i, "accepted")
    /\ UNCHANGED <<collection, artifact, selection, docs>>
    /\ UNCHANGED <<batchRow, child, cancel, halted, importFaults>>

\* The job and its workflow are enqueued in one Core transaction.
CommitImport(i) ==
    /\ ImportAt(i, "accepted")
    /\ importJob' = [importJob EXCEPT ![i].status = "QUEUED"]
    /\ ImportGoto(i, "freeze")
    /\ UNCHANGED <<collection, artifact, selection, docs>>
    /\ UNCHANGED <<batchRow, child, cancel, halted, importFaults>>

-----------------------------------------------------------------------------
(* The import workflow.                                                     *)

\* freeze_selection, first transaction.
FreezeRead(i) ==
    /\ ImportAt(i, "freeze")
    /\ i \notin halted
    /\ iwf' = IF importJob[i].status = "CANCELED"
              THEN [iwf EXCEPT ![i].pc = "ended"]
              ELSE [iwf EXCEPT ![i].pc = "mark", ![i].seen = importJob[i].status]
    /\ UNCHANGED <<storeVars, batchRow, child, cancel, halted, importFaults>>

FreezeMark(i) ==
    /\ ImportAt(i, "mark")
    /\ importJob' = [importJob EXCEPT ![i].status = Written(i, iwf[i].seen, "SNAPSHOTTING")]
    /\ ImportGoto(i, "select")
    /\ UNCHANGED <<collection, artifact, selection, docs>>
    /\ UNCHANGED <<batchRow, child, cancel, halted, importFaults>>

\* Mutant: the selection is created whatever the status of the collection.
SelectReadUnchecked(i) ==
    /\ ImportAt(i, "select")
    /\ ImportGoto(i, "insert")
    /\ UNCHANGED <<storeVars, batchRow, child, cancel, halted, importFaults>>

\* create_selection in the Artifact database: it reads the collection without a lock.
SelectRead(i) ==
    /\ ImportAt(i, "select")
    /\ ImportGoto(i, IF collection[importJob[i].source] = "OPEN" THEN "insert" ELSE "fail")
    /\ UNCHANGED <<storeVars, batchRow, child, cancel, halted, importFaults>>

(***************************************************************************)
(* create_collection_selection: the selection of this request, if it       *)
(* exists, or the items that match the job's query now.  The foreign key   *)
(* on the collection rejects a selection of a collection that is gone.     *)
(***************************************************************************)
SelectInsert(i) ==
    LET c == importJob[i].source IN
    /\ ImportAt(i, "insert")
    /\ \/ /\ selection[i].row
          /\ iwf' = [iwf EXCEPT ![i].pc = "frozen", ![i].total = selection[i].total]
          /\ UNCHANGED selection
       \/ /\ ~ selection[i].row
          /\ collection[c] # "GONE"
          /\ \E matched \in SUBSET ItemsOf(c) :
                /\ selection' = [selection EXCEPT ![i] = [row   |-> TRUE,
                                                          items |-> SetToSeq(matched),
                                                          total |-> Cardinality(matched)]]
                /\ iwf' = [iwf EXCEPT ![i].pc = "frozen", ![i].total = Cardinality(matched)]
       \/ /\ ~ selection[i].row
          /\ collection[c] = "GONE"
          /\ ImportGoto(i, "fail")
          /\ UNCHANGED selection
    /\ UNCHANGED <<collection, artifact, importJob, docs>>
    /\ UNCHANGED <<batchRow, child, cancel, halted, importFaults>>

\* freeze_selection, second transaction.
FrozenRead(i) ==
    /\ ImportAt(i, "frozen")
    /\ iwf' = [iwf EXCEPT ![i].pc = IF importJob[i].status = "CANCELED" THEN "drop" ELSE "run",
                          ![i].seen = importJob[i].status]
    /\ UNCHANGED <<storeVars, batchRow, child, cancel, halted, importFaults>>

Run(i) ==
    /\ ImportAt(i, "run")
    /\ importJob' = [importJob EXCEPT ![i].status = Written(i, iwf[i].seen, "RUNNING"),
                                      ![i].frozen = TRUE,
                                      ![i].matched = iwf[i].total]
    /\ iwf' = [iwf EXCEPT ![i].pc = "load", ![i].next = 1]
    /\ UNCHANGED <<collection, artifact, selection, docs>>
    /\ UNCHANGED <<batchRow, child, cancel, halted, importFaults>>

\* The job was canceled while its selection was frozen: the selection is removed again.
Drop(i) ==
    /\ ImportAt(i, "drop")
    /\ RemoveSelection(i)
    /\ ImportGoto(i, "ended")
    /\ UNCHANGED <<collection, artifact, importJob, docs>>
    /\ UNCHANGED <<batchRow, child, cancel, halted, importFaults>>

\* Mutant: the last batch is dropped when it is not full.
FullBatchCount(n) == n \div ImportBatchSize

\* The number of batches that a selection of n items makes.
BatchCount(n) == (n + ImportBatchSize - 1) \div ImportBatchSize

\* load_batch, and the enqueue of its batch workflow under a deterministic identifier.
Load(i) ==
    LET k == iwf[i].next
        rows == selection[i].items
        last == k * ImportBatchSize
    IN
    /\ ImportAt(i, "load")
    /\ i \notin halted
    /\ \/ /\ k > BatchCount(iwf[i].total)
          /\ ImportGoto(i, "cleanup")
          /\ UNCHANGED child
       \/ /\ k <= BatchCount(iwf[i].total)
          /\ ~ selection[i].row
          /\ ImportGoto(i, "fail")
          /\ UNCHANGED child
       \/ /\ k <= BatchCount(iwf[i].total)
          /\ selection[i].row
          /\ child' = [child EXCEPT ![i][k] =
                IF @.pc # "none" THEN @
                ELSE [NoChild EXCEPT
                        !.pc = "queued",
                        !.items = {rows[x] : x \in (last - ImportBatchSize + 1..last)
                                                     \cap DOMAIN rows}]]
          /\ iwf' = [iwf EXCEPT ![i].next = k + 1]
    /\ UNCHANGED <<storeVars, batchRow, cancel, halted, importFaults>>

\* cleanup_selection: the Artifact row, then the reference to it in the job.
Cleanup(i) ==
    /\ ImportAt(i, "cleanup")
    /\ i \notin halted
    /\ RemoveSelection(i)
    /\ importJob' = [importJob EXCEPT ![i].frozen = FALSE]
    /\ ImportGoto(i, "await")
    /\ UNCHANGED <<collection, artifact, docs>>
    /\ UNCHANGED <<batchRow, child, cancel, halted, importFaults>>

\* Mutant: a batch that failed is awaited for ever.
AwaitDone(i) ==
    /\ ImportAt(i, "await")
    /\ i \notin halted
    /\ \A k \in 1..BatchCount(iwf[i].total) : child[i][k].pc = "done"
    /\ ImportGoto(i, "complete")
    /\ UNCHANGED <<storeVars, batchRow, child, cancel, halted, importFaults>>

\* The results of the batches are awaited in order; the first error fails the import.
Await(i) ==
    LET mine == 1..BatchCount(iwf[i].total) IN
    /\ ImportAt(i, "await")
    /\ i \notin halted
    /\ \/ /\ \A k \in mine : child[i][k].pc = "done"
          /\ ImportGoto(i, "complete")
       \/ /\ \E k \in mine : /\ child[i][k].pc \in {"error", "halted"}
                             /\ \A l \in 1..(k - 1) : child[i][l].pc = "done"
          /\ ImportGoto(i, "fail")
    /\ UNCHANGED <<storeVars, batchRow, child, cancel, halted, importFaults>>

\* complete_import: refresh_progress, then its own read of the job.
CompleteRead(i) ==
    /\ ImportAt(i, "complete")
    /\ i \notin halted
    /\ IF importJob[i].status = "CANCELED"
       THEN ImportGoto(i, "ended") /\ UNCHANGED importJob
       ELSE /\ importJob' = [importJob EXCEPT
                  ![i].counts = Merged(i, importJob[i].counts, BatchTotals(i))]
            /\ iwf' = [iwf EXCEPT ![i].pc = "finish", ![i].seen = importJob[i].status]
    /\ UNCHANGED <<collection, artifact, selection, docs>>
    /\ UNCHANGED <<batchRow, child, cancel, halted, importFaults>>

Finish(i) ==
    /\ ImportAt(i, "finish")
    /\ importJob' = [importJob EXCEPT ![i].status = Written(i, iwf[i].seen, "COMPLETED"),
                                      ![i].counts.processed = importJob[i].matched,
                                      ![i].frozen = FALSE]
    /\ ImportGoto(i, "ended")
    /\ UNCHANGED <<collection, artifact, selection, docs>>
    /\ UNCHANGED <<batchRow, child, cancel, halted, importFaults>>

\* fail_import: mark_failed.
FailRead(i) ==
    /\ ImportAt(i, "fail")
    /\ i \notin halted
    /\ iwf' = IF importJob[i].status = "CANCELED"
              THEN [iwf EXCEPT ![i].pc = "ended"]
              ELSE [iwf EXCEPT ![i].pc = "failwrite", ![i].seen = importJob[i].status]
    /\ UNCHANGED <<storeVars, batchRow, child, cancel, halted, importFaults>>

\* Mutant: a status that the column does not allow.
FailWriteUnknownStatus(i) ==
    /\ ImportAt(i, "failwrite")
    /\ importJob' = [importJob EXCEPT ![i].status = Written(i, iwf[i].seen, "ERROR")]
    /\ ImportGoto(i, "ended")
    /\ UNCHANGED <<collection, artifact, selection, docs>>
    /\ UNCHANGED <<batchRow, child, cancel, halted, importFaults>>

FailWrite(i) ==
    /\ ImportAt(i, "failwrite")
    /\ importJob' = [importJob EXCEPT ![i].status = Written(i, iwf[i].seen, "FAILED")]
    /\ ImportGoto(i, "ended")
    /\ UNCHANGED <<collection, artifact, selection, docs>>
    /\ UNCHANGED <<batchRow, child, cancel, halted, importFaults>>

\* DBOS stops a canceled workflow before its next step.
Halt(i) ==
    /\ i \in halted
    /\ iwf[i].pc \in {"freeze", "load", "cleanup", "await", "complete", "fail"}
    /\ ImportGoto(i, "halted")
    /\ UNCHANGED <<storeVars, batchRow, child, cancel, halted, importFaults>>

\* The worker dies, or an error is retried, within a step: the step starts again.
ImportRestarts(i) ==
    /\ importFaults < MaxImportFaults
    /\ \/ /\ iwf[i].pc \in {"mark", "select", "insert", "frozen", "run", "drop"}
          /\ ImportGoto(i, "freeze")
       \/ ImportAt(i, "finish") /\ ImportGoto(i, "complete")
       \/ ImportAt(i, "failwrite") /\ ImportGoto(i, "fail")
    /\ importFaults' = importFaults + 1
    /\ UNCHANGED <<storeVars, batchRow, child, cancel, halted>>

\* A step exhausts its retries: the import fails, whatever its batches are doing.
ImportGivesUp(i) ==
    /\ importFaults < MaxImportFaults
    /\ iwf[i].pc \notin {"none", "accepted", "await", "fail", "failwrite", "ended", "halted"}
    /\ ImportGoto(i, "fail")
    /\ importFaults' = importFaults + 1
    /\ UNCHANGED <<storeVars, batchRow, child, cancel, halted>>

-----------------------------------------------------------------------------
(* The batch workflows: process_batch.                                      *)

ChildAt(i, k, pc) == child[i][k].pc = pc

\* The batch is already done, or the import is canceled: nothing is added.
ChildSkips(i, k) ==
    /\ ChildAt(i, k, "queued")
    /\ i \notin halted
    /\ \/ /\ batchRow[i][k].status = "COMPLETED"
          /\ UNCHANGED batchRow
       \/ /\ batchRow[i][k].status # "COMPLETED"
          /\ importJob[i].status = "CANCELED"
          /\ batchRow' = [batchRow EXCEPT ![i][k] =
                [NoBatch EXCEPT !.status = "COMPLETED",
                                !.items = Cardinality(child[i][k].items)]]
    /\ child' = [child EXCEPT ![i][k].pc = "done"]
    /\ UNCHANGED <<storeVars, iwf, cancel, halted, importFaults>>

\* Mutant: a batch that is already done is executed again.
ChildReadAgain(i, k) ==
    /\ ChildAt(i, k, "queued")
    /\ i \notin halted
    /\ importJob[i].status # "CANCELED"
    /\ child' = [child EXCEPT
          ![i][k].pc = IF child[i][k].items \cap Unimportable = {} THEN "commit" ELSE "error",
          ![i][k].known = child[i][k].items \cap InMatter(importJob[i].matter)]
    /\ UNCHANGED <<storeVars, batchRow, iwf, cancel, halted, importFaults>>

\* Reads the job, the batch and the documents that the matter already has.
ChildRead(i, k) ==
    /\ ChildAt(i, k, "queued")
    /\ i \notin halted
    /\ batchRow[i][k].status # "COMPLETED"
    /\ importJob[i].status # "CANCELED"
    /\ child' = [child EXCEPT
          ![i][k].pc = IF child[i][k].items \cap Unimportable = {} THEN "commit" ELSE "error",
          ![i][k].known = child[i][k].items \cap InMatter(importJob[i].matter)]
    /\ UNCHANGED <<storeVars, batchRow, iwf, cancel, halted, importFaults>>

\* Mutant: no unique index on the matter and the item.
ChildCommitNotUnique(i, k) ==
    LET new == child[i][k].items \ child[i][k].known IN
    /\ ChildAt(i, k, "commit")
    /\ docs' = docs \cup {[matter |-> importJob[i].matter, item |-> a, by |-> i] : a \in new}
    /\ batchRow' = [batchRow EXCEPT ![i][k] =
          [status    |-> "COMPLETED",
           items     |-> Cardinality(child[i][k].items),
           added     |-> Cardinality(new),
           duplicate |-> Cardinality(child[i][k].known)]]
    /\ child' = [child EXCEPT ![i][k].pc = "progress"]
    /\ UNCHANGED <<collection, artifact, selection, importJob>>
    /\ UNCHANGED <<iwf, cancel, halted, importFaults>>

\* Mutant: documents that another import inserted since are skipped and counted as added.
ChildCommitIgnoresConflicts(i, k) ==
    LET m == importJob[i].matter
        new == child[i][k].items \ child[i][k].known
    IN
    /\ ChildAt(i, k, "commit")
    /\ docs' = docs \cup {[matter |-> m, item |-> a, by |-> i] : a \in new \ InMatter(m)}
    /\ batchRow' = [batchRow EXCEPT ![i][k] =
          [status    |-> "COMPLETED",
           items     |-> Cardinality(child[i][k].items),
           added     |-> Cardinality(new),
           duplicate |-> Cardinality(child[i][k].known)]]
    /\ child' = [child EXCEPT ![i][k].pc = "progress"]
    /\ UNCHANGED <<collection, artifact, selection, importJob>>
    /\ UNCHANGED <<iwf, cancel, halted, importFaults>>

(***************************************************************************)
(* Inserts the documents that were not known.  If another import inserted  *)
(* one of them since, the unique index on (matter_id, collection_item_id)  *)
(* rejects the transaction and the step starts again.                      *)
(***************************************************************************)
ChildCommit(i, k) ==
    LET m == importJob[i].matter
        new == child[i][k].items \ child[i][k].known
    IN
    /\ ChildAt(i, k, "commit")
    /\ IF new \cap InMatter(m) # {}
       THEN /\ child' = [child EXCEPT ![i][k].pc = "queued"]
            /\ UNCHANGED <<docs, batchRow>>
       ELSE /\ docs' = docs \cup {[matter |-> m, item |-> a, by |-> i] : a \in new}
            /\ batchRow' = [batchRow EXCEPT ![i][k] =
                  [status    |-> "COMPLETED",
                   items     |-> Cardinality(child[i][k].items),
                   added     |-> Cardinality(new),
                   duplicate |-> Cardinality(child[i][k].known)]]
            /\ child' = [child EXCEPT ![i][k].pc = "progress"]
    /\ UNCHANGED <<collection, artifact, selection, importJob>>
    /\ UNCHANGED <<iwf, cancel, halted, importFaults>>

\* refresh_progress, its reads ...
ProgressRead(i, k) ==
    /\ ChildAt(i, k, "progress")
    /\ child' = IF importJob[i].status = "CANCELED"
                THEN [child EXCEPT ![i][k].pc = "done"]
                ELSE [child EXCEPT ![i][k].pc = "write",
                                   ![i][k].seen = importJob[i].counts,
                                   ![i][k].totals = BatchTotals(i)]
    /\ UNCHANGED <<storeVars, batchRow, iwf, cancel, halted, importFaults>>

\* ... and its write.
ProgressWrite(i, k) ==
    /\ ChildAt(i, k, "write")
    /\ importJob' = [importJob EXCEPT
          ![i].counts = Merged(i, child[i][k].seen, child[i][k].totals)]
    /\ child' = [child EXCEPT ![i][k].pc = "done",
                              ![i][k].seen = NoCounts, ![i][k].totals = NoCounts]
    /\ UNCHANGED <<collection, artifact, selection, docs>>
    /\ UNCHANGED <<batchRow, iwf, cancel, halted, importFaults>>

ChildHalts(i, k) ==
    /\ i \in halted
    /\ ChildAt(i, k, "queued")
    /\ child' = [child EXCEPT ![i][k].pc = "halted"]
    /\ UNCHANGED <<storeVars, batchRow, iwf, cancel, halted, importFaults>>

\* The worker dies, or an error is retried, within process_batch: the step starts again.
ChildRestarts(i, k) ==
    /\ importFaults < MaxImportFaults
    /\ child[i][k].pc \in {"commit", "progress", "write"}
    /\ child' = [child EXCEPT ![i][k].pc = "queued"]
    /\ importFaults' = importFaults + 1
    /\ UNCHANGED <<storeVars, batchRow, iwf, cancel, halted>>

ChildGivesUp(i, k) ==
    /\ importFaults < MaxImportFaults
    /\ child[i][k].pc \in {"queued", "commit", "progress", "write"}
    /\ child' = [child EXCEPT ![i][k].pc = "error"]
    /\ importFaults' = importFaults + 1
    /\ UNCHANGED <<storeVars, batchRow, iwf, cancel, halted>>

-----------------------------------------------------------------------------
(* cancel_document_import.                                                  *)

CancelRead(i) ==
    /\ i \in Cancelable
    /\ cancel[i].pc = "idle"
    /\ importJob[i].status \in ActiveImportStatus
    /\ cancel' = [cancel EXCEPT ![i] = [pc |-> "write", seen |-> importJob[i].status,
                                        frozen |-> importJob[i].frozen]]
    /\ UNCHANGED <<storeVars, batchRow, iwf, child, halted, importFaults>>

CancelWrite(i) ==
    /\ cancel[i].pc = "write"
    /\ importJob' = [importJob EXCEPT ![i].status = Written(i, cancel[i].seen, "CANCELED")]
    /\ cancel' = [cancel EXCEPT ![i].pc = "remove"]
    /\ UNCHANGED <<collection, artifact, selection, docs>>
    /\ UNCHANGED <<batchRow, iwf, child, halted, importFaults>>

\* The selection that the session loaded is removed; a failure is only logged.
CancelRemove(i) ==
    /\ cancel[i].pc = "remove"
    /\ \/ /\ cancel[i].frozen
          /\ RemoveSelection(i)
          /\ importJob' = [importJob EXCEPT ![i].frozen = FALSE]
       \/ UNCHANGED <<selection, importJob>>
    /\ cancel' = [cancel EXCEPT ![i].pc = "stop"]
    /\ UNCHANGED <<collection, artifact, docs>>
    /\ UNCHANGED <<batchRow, iwf, child, halted, importFaults>>

\* DBOS is asked to cancel the workflow and its children; a failure is only logged.
CancelStop(i) ==
    /\ cancel[i].pc = "stop"
    /\ halted' \in {halted, halted \cup {i}}
    /\ cancel' = [cancel EXCEPT ![i].pc = "done"]
    /\ UNCHANGED <<storeVars, batchRow, iwf, child, importFaults>>

-----------------------------------------------------------------------------
ImportStep(i) ==
    \/ CommitImport(i)
    \/ FreezeRead(i) \/ FreezeMark(i) \/ SelectRead(i) \/ SelectInsert(i)
    \/ FrozenRead(i) \/ Run(i) \/ Drop(i)
    \/ Load(i) \/ Cleanup(i) \/ Await(i)
    \/ CompleteRead(i) \/ Finish(i) \/ FailRead(i) \/ FailWrite(i) \/ Halt(i)

ChildStep(i, k) ==
    \/ ChildSkips(i, k) \/ ChildRead(i, k) \/ ChildCommit(i, k)
    \/ ProgressRead(i, k) \/ ProgressWrite(i, k) \/ ChildHalts(i, k)

CancelStep(i) == CancelRead(i) \/ CancelWrite(i) \/ CancelRemove(i) \/ CancelStop(i)

ImportNext ==
    \E i \in Imports :
        \/ \E c \in Collections, m \in Matters : RequestImport(i, c, m)
        \/ ImportStep(i) \/ ImportRestarts(i) \/ ImportGivesUp(i)
        \/ CancelStep(i)
        \/ \E k \in Batches : ChildStep(i, k) \/ ChildRestarts(i, k) \/ ChildGivesUp(i, k)

ImportFairness ==
    \A i \in Imports : /\ WF_<<storeVars, importVars>>(ImportStep(i))
                       /\ \A k \in Batches : WF_<<storeVars, importVars>>(ChildStep(i, k))

\* Every item and container has been uploaded into an OPEN collection, with equal contents.
UploadedStore ==
    /\ collection = [c \in Collections |-> "OPEN"]
    /\ artifact = [a \in Artifacts |-> CHOOSE b \in Blobs : TRUE]
    /\ selection = [i \in Imports |-> NoSelection]
    /\ importJob = [i \in Imports |-> NoImport]
    /\ docs = {}

ImportStart == UploadedStore /\ ImportInit

ImportSpec ==
    /\ ImportStart
    /\ [][ImportNext]_<<storeVars, importVars>>
    /\ ImportFairness

-----------------------------------------------------------------------------
(* Properties.                                                              *)

Document == [matter : Matters, item : ItemArtifacts, by : Imports]

\* Every variable holds a value that its column or program counter can hold.
ImportTypeOK ==
    /\ importJob \in [Imports -> [status : ImportStatus,
                                  source : Collections \cup {NoCollection},
                                  matter : Matters \cup {NoMatter},
                                  frozen : BOOLEAN, matched : Nat, counts : ImportCounts]]
    /\ \A i \in Imports : selection[i].items \in Seq(ItemArtifacts)
    /\ docs \subseteq Document
    /\ batchRow \in [Imports -> [Batches -> [status : {"NONE", "COMPLETED"}, items : Nat,
                                             added : Nat, duplicate : Nat]]]
    /\ iwf \in [Imports -> [pc : ImportPC, seen : ImportStatus, next : Nat, total : Nat]]
    /\ child \in [Imports -> [Batches -> [pc : ChildPC, items : SUBSET ItemArtifacts,
                                          known : SUBSET ItemArtifacts,
                                          seen : ImportCounts, totals : ImportCounts]]]
    /\ cancel \in [Imports -> [pc : {"idle", "write", "remove", "stop", "done"},
                               seen : ImportStatus, frozen : BOOLEAN]]
    /\ halted \in SUBSET Imports

\* The documents that import i added, and the items that its batches were given.
AddedBy(i) == {d \in docs : d.by = i}
Planned(i) == UNION {child[i][k].items : k \in Batches}

(***************************************************************************)
(* "Completed means every batch finished" (matter-jobs.mdx): a completed   *)
(* import has linked every item of its frozen selection, each item of      *)
(* which was in one batch, and has removed the selection; whatever other   *)
(* imports, cancel requests and restarts ran at the same time.  Its counts *)
(* are exact although its batches refresh them concurrently: "Added counts *)
(* new matter links", "Already present counts items that were previously   *)
(* linked".                                                                *)
(***************************************************************************)
CompletedIsComplete ==
    \A i \in Imports : importJob[i].status = "COMPLETED" =>
        LET n == importJob[i].counts IN
        /\ Cardinality(Planned(i)) = importJob[i].matched
        /\ Planned(i) \subseteq InMatter(importJob[i].matter)
        /\ ~ selection[i].row
        /\ n.added = Cardinality(AddedBy(i))
        /\ n.processed = importJob[i].matched
        /\ n.added + n.duplicate = n.processed

(***************************************************************************)
(* A committed batch is counted once: what the batch rows say was added is *)
(* what the matter got, at every moment and however often a batch is       *)
(* executed ("Retrying or overlapping selections therefore does not        *)
(* duplicate matter documents").                                           *)
(***************************************************************************)
BatchesAccountForDocuments ==
    \A i \in Imports : Count(i, "added") = Cardinality(AddedBy(i))

\* A matter has at most one document for an item, whichever imports race to add it.
OneDocumentPerItem ==
    \A d, e \in docs : d.matter = e.matter /\ d.item = e.item => d = e

(***************************************************************************)
(* "Canceled means no further documents will be added by the job"; in the  *)
(* words of the cancel handler, "the Core record is authoritative for      *)
(* cancellation": once CANCELED, the record stays CANCELED.                *)
(***************************************************************************)
CanceledIsFinal ==
    [][\A i \in Imports : importJob[i].status = "CANCELED" => importJob'[i].status = "CANCELED"
      ]_<<storeVars, importVars>>

(***************************************************************************)
(* An import that is accepted ends, even if its worker restarts, and then  *)
(* its batches end too.                                                    *)
(***************************************************************************)
EveryImportEnds ==
    \A i \in Imports : importJob[i].status = "QUEUED" ~>
        /\ importJob[i].status \in TerminalImportStatus
        /\ \A k \in Batches : child[i][k].pc \in {"none", "done", "error", "halted"}
=============================================================================

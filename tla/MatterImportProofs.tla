--------------------------- MODULE MatterImportProofs ---------------------------
(***************************************************************************)
(* Theorems about MatterImport: a matter gets one document of an item, a   *)
(* batch is counted once, and an import that is COMPLETED is complete, for *)
(* any number of imports, items and batches, whatever is canceled, fails   *)
(* or restarts.                                                            *)
(***************************************************************************)
EXTENDS MatterImport, SumsProofs

(***************************************************************************)
(* The invariant.                                                          *)
(***************************************************************************)

\* Where an import has no batches yet, and where it has frozen its selection.
Early == {"none", "accepted", "freeze", "mark", "select", "insert", "frozen", "run", "drop"}
\* The steps of the workflow at which it has loaded every batch.
Loaded == {"load", "cleanup", "await", "complete", "finish"}

\* A job the workflow has finished.
Completed(i) == importJob[i].status = "COMPLETED"

\* No item is in a sequence twice.
Unique(s) == \A x, y \in DOMAIN s : s[x] = s[y] => x = y

\* The items of the k-th batch of a selection.
Slice(s, k) ==
    {s[x] : x \in (k * ImportBatchSize - ImportBatchSize + 1..k * ImportBatchSize) \cap DOMAIN s}

\* An import that is requested has a matter.
RequestInv(i) == iwf[i].pc # "none" => importJob[i].matter \in Matters

\* A frozen selection has every item once.
SelectionInv(i) ==
    selection[i].row => selection[i].total = Len(selection[i].items) /\ Unique(selection[i].items)

\* What the workflow of a batch has done goes with its row.
Agreed(i, k) ==
    /\ child[i][k].pc = "none" => child[i][k].items = {} /\ batchRow[i][k].status = "NONE"
    /\ child[i][k].pc = "commit" => /\ batchRow[i][k].status = "NONE"
                                    /\ child[i][k].known \subseteq child[i][k].items
                                    /\ child[i][k].known \subseteq InMatter(importJob[i].matter)
    /\ child[i][k].pc \in {"progress", "write", "done"} => batchRow[i][k].status = "COMPLETED"

\* An import that has not loaded its selection has no batches.
BatchInv(i) ==
    /\ \A k \in Batches : Agreed(i, k)
    /\ iwf[i].pc \in Early => \A k \in Batches : child[i][k].pc = "none"

\* The batch has linked all its items, and counted each of them.
Linked(i, k) ==
    /\ child[i][k].items \subseteq InMatter(importJob[i].matter)
    /\ batchRow[i][k].added + batchRow[i][k].duplicate = Cardinality(child[i][k].items)

\* Where an import may still become COMPLETED, or is.
MayComplete(i) ==
    \/ iwf[i].pc \in {"load", "cleanup", "await", "complete"} /\ importJob[i].status # "CANCELED"
    \/ iwf[i].pc = "finish"
    \/ Completed(i)

\* Only an import that is canceled, and will not complete, has skipped a batch.
LinkedInv(i) ==
    MayComplete(i) => \A k \in Batches : batchRow[i][k].status = "COMPLETED" => Linked(i, k)

\* The batches are slices of one sequence: the frozen selection, also after it is removed.
PlanInv(i) ==
    iwf[i].pc \in {"frozen", "run"} \cup Loaded \/ Completed(i) =>
        \E s \in Seq(ItemArtifacts) :
            /\ Unique(s) /\ Len(s) = iwf[i].total
            /\ selection[i].row => selection[i].items = s
            /\ \A k \in Batches : child[i][k].pc # "none" => child[i][k].items = Slice(s, k)

\* How far an import is, and what it has by then.
ProgressInv(i) ==
    /\ iwf[i].pc = "load" => /\ iwf[i].next \in 1..BatchCount(iwf[i].total) + 1
                             /\ \A k \in Batches : child[i][k].pc # "none" <=> k < iwf[i].next
    /\ iwf[i].pc \in Loaded \ {"load"} \/ Completed(i) =>
          \A k \in Batches : child[i][k].pc # "none" <=> k <= BatchCount(iwf[i].total)
    /\ iwf[i].pc \in Loaded \/ Completed(i) => importJob[i].matched = iwf[i].total
    /\ iwf[i].pc \in {"await", "complete", "finish"} \/ Completed(i) => ~selection[i].row
    /\ iwf[i].pc \in {"complete", "finish"} \/ Completed(i) =>
          \A k \in Batches : child[i][k].pc \in {"none", "done"}
    /\ iwf[i].pc = "finish" \/ Completed(i) =>
          /\ importJob[i].counts.added = Count(i, "added")
          /\ importJob[i].counts.duplicate = Count(i, "duplicate")
    /\ Completed(i) => iwf[i].pc = "ended" /\ importJob[i].counts.processed = importJob[i].matched

\* What the batch rows of an import say was added is what the matter got.
Accounted(i) == IsFiniteSet(AddedBy(i)) /\ Count(i, "added") = Cardinality(AddedBy(i))

\* The invariant of one import, and of all of them.
PerImport(i) ==
    /\ RequestInv(i) /\ SelectionInv(i) /\ BatchInv(i) /\ LinkedInv(i) /\ PlanInv(i)
    /\ ProgressInv(i) /\ Accounted(i)

\* The frozen rows of a selection.
SelectionRows == [row : BOOLEAN, items : Seq(ItemArtifacts), total : Nat]

\* The inductive invariant: types, and what every step has established so far.
ImportInv ==
    /\ ImportTypeOK /\ selection \in [Imports -> SelectionRows]
    /\ \A i \in Imports : PerImport(i)
    /\ OneDocumentPerItem

(***************************************************************************)
(* Batches: the slices of a sequence.                                      *)
(***************************************************************************)

\* The batches of n items hold n items, and their number is bounded.
LEMMA BatchCounts ==
  ASSUME NEW n \in Nat
  PROVE  /\ BatchCount(n) \in Nat /\ n <= BatchCount(n) * ImportBatchSize
         /\ \A m \in Nat : n <= ImportBatchSize * m => BatchCount(n) <= m
<1>1. ImportBatchSize \in Nat \ {0}
  BY ImportAssumption
<1>2. BatchCount(n) \in Nat
  BY <1>1 DEF BatchCount
<1>3. n <= BatchCount(n) * ImportBatchSize
  BY <1>1, Z3 DEF BatchCount
<1>4. ASSUME NEW m \in Nat, n <= ImportBatchSize * m
      PROVE  BatchCount(n) <= m
  BY <1>1, <1>4, Z3 DEF BatchCount
<1> QED BY <1>2, <1>3, <1>4

\* A sequence that has no item twice has at most as many elements as there are items, and its
\* batches fit in the bound.
LEMMA UniqueSequences ==
  ASSUME NEW s \in Seq(ItemArtifacts), Unique(s)
  PROVE  /\ IsFiniteSet({s[x] : x \in 1..Len(s)})
         /\ Cardinality({s[x] : x \in 1..Len(s)}) = Len(s)
         /\ BatchCount(Len(s)) <= MaxBatches
<1> DEFINE R == {s[x] : x \in 1..Len(s)}
<1>1. Len(s) \in Nat /\ DOMAIN s = 1..Len(s) /\ R \subseteq ItemArtifacts
  OBVIOUS
<1>2. s \in Bijection(1..Len(s), R)
  <2>1. s \in [1..Len(s) -> R] /\ \A t \in R : \E x \in 1..Len(s) : s[x] = t
    BY <1>1
  <2>2. s \in Surjection(1..Len(s), R)
    BY <2>1 DEF Surjection
  <2>3. s \in Injection(1..Len(s), R)
    BY <1>1, <2>1 DEF Unique, Injection, IsInjective
  <2> QED BY <2>2, <2>3 DEF Bijection
<1>3. IsFiniteSet(1..Len(s)) /\ Cardinality(1..Len(s)) = Len(s)
  BY <1>1, FS_Interval
<1> HIDE DEF R
<1>4. IsFiniteSet(R) /\ Cardinality(R) = Len(s)
  <2>1. ExistsBijection(1..Len(s), R)
    BY <1>2 DEF ExistsBijection
  <2> QED BY <1>3, <2>1, FS_Bijection
<1>5. IsFiniteSet(ItemArtifacts)
  BY StoreAssumption, FS_Subset
<1>6. Cardinality(R) <= Cardinality(ItemArtifacts) /\ Cardinality(ItemArtifacts) \in Nat
  BY <1>1, <1>5, FS_Subset, FS_CardinalityType
<1>7. ImportBatchSize * MaxBatches \in Nat
  BY ImportAssumption
<1>8. Len(s) <= ImportBatchSize * MaxBatches
  BY <1>1, <1>4, <1>6, <1>7, ImportAssumption
<1>9. BatchCount(Len(s)) <= MaxBatches
  BY <1>1, <1>8, BatchCounts, ImportAssumption
<1> QED BY <1>4, <1>9 DEF R

\* No element of such a sequence is in two slices, and each is in one of its batches.
LEMMA SlicesPartition ==
  ASSUME NEW s \in Seq(ItemArtifacts), Unique(s)
  PROVE  /\ \A j, k \in Nat : j # k => Slice(s, j) \cap Slice(s, k) = {}
         /\ \A k \in Nat : Slice(s, k) \subseteq ItemArtifacts
         /\ \A x \in 1..Len(s) : \E k \in 1..BatchCount(Len(s)) : s[x] \in Slice(s, k)
         /\ \A k \in Nat : Slice(s, k) \subseteq {s[x] : x \in 1..Len(s)}
<1>1. Len(s) \in Nat /\ DOMAIN s = 1..Len(s) /\ ImportBatchSize \in Nat \ {0}
  BY ImportAssumption
<1>2. ASSUME NEW j \in Nat, NEW k \in Nat, j < k
      PROVE  Slice(s, j) \cap Slice(s, k) = {}
  <2>1. j * ImportBatchSize <= k * ImportBatchSize - ImportBatchSize
    BY <1>1, <1>2
  <2>2. j * ImportBatchSize \in Nat /\ k * ImportBatchSize \in Nat
    BY <1>1
  <2> SUFFICES ASSUME NEW a \in Slice(s, j), a \in Slice(s, k)
               PROVE  FALSE
    OBVIOUS
  <2>3. PICK x \in 1..Len(s) : x <= j * ImportBatchSize /\ a = s[x]
    BY <1>1, <2>2 DEF Slice
  <2>4. PICK y \in 1..Len(s) : y >= k * ImportBatchSize - ImportBatchSize + 1 /\ a = s[y]
    BY <1>1, <2>2 DEF Slice
  <2>5. x = y
    BY <1>1, <2>3, <2>4 DEF Unique
  <2> QED BY <1>1, <2>1, <2>2, <2>3, <2>4, <2>5
<1>3. \A j, k \in Nat : j # k => Slice(s, j) \cap Slice(s, k) = {}
  <2> SUFFICES ASSUME NEW j \in Nat, NEW k \in Nat, j # k
               PROVE  Slice(s, j) \cap Slice(s, k) = {}
    OBVIOUS
  <2>1. j < k \/ k < j
    OBVIOUS
  <2> QED BY <1>2, <2>1
<1>4. \A k \in Nat : Slice(s, k) \subseteq {s[x] : x \in 1..Len(s)}
  BY <1>1 DEF Slice
<1>5. ASSUME NEW x \in 1..Len(s)
      PROVE  \E k \in 1..BatchCount(Len(s)) : s[x] \in Slice(s, k)
  <2> DEFINE k == BatchCount(x)
  <2>1. x \in Nat /\ k \in Nat /\ x <= k * ImportBatchSize
    BY <1>1, BatchCounts
  <2>2. k # 0
    BY <1>1, <2>1
  <2>3. k * ImportBatchSize - ImportBatchSize + 1 <= x
    BY <1>1, <2>1, Z3 DEF BatchCount
  <2>4. BatchCount(Len(s)) \in Nat /\ Len(s) <= ImportBatchSize * BatchCount(Len(s))
    <3>1. BatchCount(Len(s)) \in Nat /\ Len(s) <= BatchCount(Len(s)) * ImportBatchSize
      BY <1>1, BatchCounts
    <3> QED BY <1>1, <3>1
  <2>5. k <= BatchCount(Len(s))
    <3>1. ImportBatchSize * BatchCount(Len(s)) \in Nat /\ x <= ImportBatchSize * BatchCount(Len(s))
      BY <1>1, <2>1, <2>4
    <3> QED BY <2>1, <2>4, <3>1, BatchCounts
  <2> HIDE DEF k
  <2>6. x \in (k * ImportBatchSize - ImportBatchSize + 1..k * ImportBatchSize)
    BY <1>1, <2>1, <2>3
  <2>7. s[x] \in Slice(s, k)
    BY <1>1, <2>6 DEF Slice
  <2> QED BY <2>1, <2>2, <2>4, <2>5, <2>7
<1> QED BY <1>1, <1>3, <1>4, <1>5

(***************************************************************************)
(* The rows that a step changes.                                           *)
(***************************************************************************)

\* The rows of the import tables and of the workflows that serve them.
JobRows == [status : ImportStatus, source : Collections \cup {NoCollection},
            matter : Matters \cup {NoMatter}, frozen : BOOLEAN, matched : Nat, counts : ImportCounts]
BatchRows == [status : {"NONE", "COMPLETED"}, items : Nat, added : Nat, duplicate : Nat]
WorkflowRows == [pc : ImportPC, seen : ImportStatus, next : Nat, total : Nat]
ChildRows == [pc : ChildPC, items : SUBSET ItemArtifacts, known : SUBSET ItemArtifacts,
              seen : ImportCounts, totals : ImportCounts]
\* The cancellation of a job, between its read and its write.
CancelRows == [pc : {"idle", "write", "remove", "stop", "done"}, seen : ImportStatus, frozen : BOOLEAN]

\* The variables hold such rows.
ImportRowsOK ==
    /\ importJob \in [Imports -> JobRows] /\ iwf \in [Imports -> WorkflowRows]
    /\ selection \in [Imports -> SelectionRows]
    /\ batchRow \in [Imports -> [Batches -> BatchRows]]
    /\ child \in [Imports -> [Batches -> ChildRows]]
    /\ cancel \in [Imports -> CancelRows] /\ halted \subseteq Imports /\ docs \subseteq Document

\* What the type invariant says of the variables.
LEMMA ImportRows ==
  ASSUME ImportInv
  PROVE  /\ ImportRowsOK
         /\ importJob \in [Imports -> JobRows] /\ iwf \in [Imports -> WorkflowRows]
         /\ selection \in [Imports -> SelectionRows]
         /\ batchRow \in [Imports -> [Batches -> BatchRows]]
         /\ child \in [Imports -> [Batches -> ChildRows]]
         /\ cancel \in [Imports -> CancelRows] /\ halted \subseteq Imports /\ docs \subseteq Document
         /\ \A i \in Imports : PerImport(i)
  BY DEF ImportInv, ImportTypeOK, ImportRowsOK, JobRows, WorkflowRows, BatchRows, ChildRows, CancelRows

\* Rows of these types make up the type invariant.
LEMMA TypesKept ==
  ASSUME (importJob \in [Imports -> JobRows])', (iwf \in [Imports -> WorkflowRows])',
         (selection \in [Imports -> SelectionRows])',
         (batchRow \in [Imports -> [Batches -> BatchRows]])',
         (child \in [Imports -> [Batches -> ChildRows]])',
         (cancel \in [Imports -> CancelRows])', (halted \subseteq Imports)', (docs \subseteq Document)'
  PROVE  ImportTypeOK'
<1>1. \A i \in Imports : selection'[i].items \in Seq(ItemArtifacts)
  BY DEF SelectionRows
<1> QED BY <1>1 DEF ImportTypeOK, JobRows, WorkflowRows, BatchRows, ChildRows, CancelRows

\* The documents of a matter stay in it.
LEMMA MattersGrow ==
  ASSUME docs \subseteq docs', NEW m
  PROVE  InMatter(m) \subseteq InMatter(m)'
  BY DEF InMatter

\* The counts of an import are sums of its batch rows.
LEMMA CountType ==
  ASSUME batchRow \in [Imports -> [Batches -> BatchRows]], NEW i \in Imports,
         NEW field \in {"items", "added", "duplicate"}
  PROVE  Count(i, field) \in Nat
<1> DEFINE f == [k \in Batches |->
                   IF batchRow[i][k].status = "COMPLETED" THEN batchRow[i][k][field] ELSE 0]
<1>1. f \in [1..MaxBatches -> Nat] /\ MaxBatches \in Nat
  BY ImportAssumption DEF Batches, BatchRows
<1> HIDE DEF f
<1>2. SumTo(f, MaxBatches) \in Nat
  BY <1>1, SumType
<1> QED BY <1>2 DEF Count, f

\* An import that a step of another one does not touch keeps its invariant: its documents stay
\* in its matter, and the new documents are not its own.
LEMMA OthersKeep ==
  ASSUME NEW j \in Imports, PerImport(j),
         importJob'[j] = importJob[j], iwf'[j] = iwf[j], selection'[j] = selection[j],
         batchRow'[j] = batchRow[j], child'[j] = child[j],
         docs \subseteq docs', \A d \in docs' \ docs : d.by # j
  PROVE  PerImport(j)'
<1>1. \A f : Count(j, f)' = Count(j, f)
  BY DEF Count
<1>2. Accounted(j)'
  <2>1. AddedBy(j)' = AddedBy(j)
    BY DEF AddedBy
  <2> QED BY <1>1, <2>1 DEF PerImport, Accounted
<1>3. InMatter(importJob[j].matter) \subseteq InMatter(importJob[j].matter)'
  BY DEF InMatter
<1>4. SelectionInv(j)'
  BY DEF PerImport, SelectionInv
<1>5. BatchInv(j)'
  BY <1>3 DEF PerImport, BatchInv, Agreed
<1>6. LinkedInv(j)'
  BY <1>3 DEF PerImport, LinkedInv, MayComplete, Completed, Linked
<1>7. PlanInv(j)'
  BY DEF PerImport, PlanInv, Completed
<1>8. ProgressInv(j)'
  BY <1>1 DEF PerImport, ProgressInv, Completed
<1>9. RequestInv(j)'
  BY DEF PerImport, RequestInv
<1> QED BY <1>2, <1>4, <1>5, <1>6, <1>7, <1>8, <1>9 DEF PerImport

\* A step of one import: it replaces rows of it by rows of their types, and keeps its invariant.
LEMMA OneImport ==
  ASSUME ImportInv, NEW i \in Imports,
         NEW w \in WorkflowRows, iwf' = [iwf EXCEPT ![i] = w],
         NEW job \in JobRows, importJob' = [importJob EXCEPT ![i] = job],
         NEW sel \in SelectionRows, selection' = [selection EXCEPT ![i] = sel],
         NEW rows \in [Batches -> BatchRows], batchRow' = [batchRow EXCEPT ![i] = rows],
         NEW mine \in [Batches -> ChildRows], child' = [child EXCEPT ![i] = mine],
         (cancel \in [Imports -> CancelRows])', (halted \subseteq Imports)',
         (docs \subseteq Document)', docs \subseteq docs', \A d \in docs' \ docs : d.by = i,
         PerImport(i)', OneDocumentPerItem'
  PROVE  ImportInv'
<1>1. /\ importJob' \in [Imports -> JobRows] /\ iwf' \in [Imports -> WorkflowRows]
      /\ selection' \in [Imports -> SelectionRows]
      /\ batchRow' \in [Imports -> [Batches -> BatchRows]]
      /\ child' \in [Imports -> [Batches -> ChildRows]]
  BY ImportRows
<1>2. ImportTypeOK'
  BY <1>1, TypesKept
<1>3. ASSUME NEW j \in Imports, j # i
      PROVE  PerImport(j)'
  <2>1. /\ importJob'[j] = importJob[j] /\ iwf'[j] = iwf[j] /\ selection'[j] = selection[j]
        /\ batchRow'[j] = batchRow[j] /\ child'[j] = child[j] /\ PerImport(j)
    BY <1>3, ImportRows
  <2>2. \A d \in docs' \ docs : d.by # j
    BY <1>3
  <2> QED BY <2>1, <2>2, OthersKeep
<1>4. \A j \in Imports : PerImport(j)'
  BY <1>3
<1> QED BY <1>1, <1>2, <1>4 DEF ImportInv

(***************************************************************************)
(* Steps that leave the batches of an import alone.                        *)
(***************************************************************************)

\* Such a step keeps what the batches have counted.
LEMMA WorkflowKeeps ==
  ASSUME ImportInv, NEW i \in Imports,
         NEW w \in WorkflowRows, iwf' = [iwf EXCEPT ![i] = w],
         NEW job \in JobRows, importJob' = [importJob EXCEPT ![i] = job],
         NEW sel \in SelectionRows, selection' = [selection EXCEPT ![i] = sel],
         sel.row => sel.total = Len(sel.items) /\ Unique(sel.items),
         batchRow' = batchRow, child' = child, docs' = docs,
         (cancel \in [Imports -> CancelRows])', (halted \subseteq Imports)',
         w.pc \in Early => iwf[i].pc \in Early,
         \/ job.matter = importJob[i].matter /\ (iwf[i].pc = "none" => w.pc = "none")
         \/ job.matter \in Matters /\ iwf[i].pc \in Early,
         LinkedInv(i)', PlanInv(i)', ProgressInv(i)'
  PROVE  ImportInv'
<1>1. PerImport(i)
  BY ImportRows
<1>2. iwf'[i] = w /\ importJob'[i] = job /\ selection'[i] = sel
  BY ImportRows
<1>3. SelectionInv(i)'
  BY <1>2 DEF SelectionInv
<1>4. BatchInv(i)'
  <2>1. CASE iwf[i].pc \in Early
    <3>1. \A k \in Batches : child[i][k].pc = "none"
      BY <1>1, <2>1 DEF PerImport, BatchInv, Agreed
    <3> QED BY <1>1, <3>1 DEF PerImport, BatchInv, Agreed
  <2>2. CASE iwf[i].pc \notin Early
    <3>1. w.pc \notin Early /\ InMatter(importJob[i].matter)' = InMatter(importJob[i].matter)
      BY <1>2, <2>2 DEF InMatter
    <3> QED BY <1>1, <1>2, <3>1 DEF PerImport, BatchInv, Agreed
  <2> QED BY <2>1, <2>2
<1>5. Accounted(i)'
  BY <1>1 DEF PerImport, Accounted, Count, AddedBy
<1>6. PerImport(i)'
  <2>1. RequestInv(i)'
    BY <1>1, <1>2 DEF PerImport, RequestInv
  <2> QED BY <1>3, <1>4, <1>5, <2>1 DEF PerImport
<1>7. OneDocumentPerItem'
  BY DEF ImportInv, OneDocumentPerItem
<1>8. /\ batchRow' = [batchRow EXCEPT ![i] = batchRow[i]] /\ batchRow[i] \in [Batches -> BatchRows]
      /\ child' = [child EXCEPT ![i] = child[i]] /\ child[i] \in [Batches -> ChildRows]
      /\ (docs \subseteq Document)'
  BY ImportRows
<1> QED BY <1>6, <1>7, <1>8, OneImport

\* An import that leaves the path to its completion claims nothing any more.
LEMMA LeavingKeeps ==
  ASSUME ImportInv, NEW i \in Imports,
         NEW w \in WorkflowRows, iwf' = [iwf EXCEPT ![i] = w],
         NEW job \in JobRows, importJob' = [importJob EXCEPT ![i] = job],
         NEW sel \in SelectionRows, selection' = [selection EXCEPT ![i] = sel],
         sel.row => sel.total = Len(sel.items) /\ Unique(sel.items),
         batchRow' = batchRow, child' = child, docs' = docs,
         (cancel \in [Imports -> CancelRows])', (halted \subseteq Imports)',
         w.pc \in Early => iwf[i].pc \in Early,
         \/ job.matter = importJob[i].matter /\ (iwf[i].pc = "none" => w.pc = "none")
         \/ job.matter \in Matters /\ iwf[i].pc \in Early,
         w.pc \notin {"frozen", "run"} \cup Loaded, job.status # "COMPLETED"
  PROVE  ImportInv'
<1>1. iwf'[i] = w /\ importJob'[i] = job
  BY ImportRows
<1>2. w.pc \notin Loaded /\ ~Completed(i)'
  BY <1>1 DEF Completed
<1>3. ~MayComplete(i)'
  BY <1>1, <1>2 DEF MayComplete, Loaded
<1>4. LinkedInv(i)'
  BY <1>3 DEF LinkedInv
<1>5. PlanInv(i)'
  BY <1>1, <1>2 DEF PlanInv
<1>6. ProgressInv(i)'
  BY <1>1, <1>2 DEF ProgressInv, Loaded
<1> QED BY <1>4, <1>5, <1>6, WorkflowKeeps

\* Rows that a step does not change are replaced by themselves.
LEMMA SameRows ==
  ASSUME ImportInv, NEW i \in Imports
  PROVE  /\ iwf[i] \in WorkflowRows /\ iwf = [iwf EXCEPT ![i] = iwf[i]]
         /\ importJob[i] \in JobRows /\ importJob = [importJob EXCEPT ![i] = importJob[i]]
         /\ selection[i] \in SelectionRows /\ selection = [selection EXCEPT ![i] = selection[i]]
         /\ batchRow[i] \in [Batches -> BatchRows] /\ batchRow = [batchRow EXCEPT ![i] = batchRow[i]]
         /\ child[i] \in [Batches -> ChildRows] /\ child = [child EXCEPT ![i] = child[i]]
         /\ RequestInv(i) /\ SelectionInv(i) /\ BatchInv(i) /\ LinkedInv(i) /\ PlanInv(i) /\ ProgressInv(i) /\ Accounted(i)
         /\ iwf[i].pc # "ended" => importJob[i].status # "COMPLETED"
<1>1. PerImport(i)
  BY ImportRows
<1>2. iwf[i].pc # "ended" => importJob[i].status # "COMPLETED"
  BY <1>1 DEF PerImport, ProgressInv, Completed
<1> QED BY <1>1, <1>2, ImportRows DEF PerImport

\* A workflow leaves that path without a change of other rows.
LEMMA LeavingAlone ==
  ASSUME ImportInv, NEW i \in Imports,
         NEW w \in WorkflowRows, iwf' = [iwf EXCEPT ![i] = w],
         UNCHANGED <<storeVars, batchRow, child, cancel, halted>>,
         w.pc \in Early => iwf[i].pc \in Early,
         w.pc \notin {"frozen", "run"} \cup Loaded, iwf[i].pc \notin {"none", "ended"}
  PROVE  ImportInv'
<1>1. /\ importJob' = importJob /\ selection' = selection /\ docs' = docs /\ batchRow' = batchRow
      /\ child' = child /\ cancel' = cancel /\ halted' = halted
  BY DEF storeVars
<1>2. (cancel \in [Imports -> CancelRows])' /\ (halted \subseteq Imports)'
  BY <1>1, ImportRows
<1>3. selection[i].row => selection[i].total = Len(selection[i].items) /\ Unique(selection[i].items)
  BY SameRows DEF SelectionInv
<1>4. /\ importJob[i] \in JobRows /\ importJob' = [importJob EXCEPT ![i] = importJob[i]]
      /\ selection[i] \in SelectionRows /\ selection' = [selection EXCEPT ![i] = selection[i]]
      /\ importJob[i].status # "COMPLETED"
  BY <1>1, SameRows
<1> QED BY <1>1, <1>2, <1>3, <1>4, LeavingKeeps

\* A move of the program counter of a workflow.
LEMMA GotoRow ==
  ASSUME ImportRowsOK, NEW i \in Imports, NEW pc \in ImportPC, ImportGoto(i, pc)
  PROVE  \E w \in WorkflowRows : /\ iwf' = [iwf EXCEPT ![i] = w] /\ w.pc = pc
                                 /\ w.next = iwf[i].next /\ w.total = iwf[i].total
<1> DEFINE w == [iwf[i] EXCEPT !.pc = pc]
<1>1. iwf[i] \in WorkflowRows /\ iwf \in [Imports -> WorkflowRows]
  BY DEF ImportRowsOK
<1>2. w \in WorkflowRows /\ w.pc = pc /\ w.next = iwf[i].next /\ w.total = iwf[i].total
  BY <1>1 DEF WorkflowRows
<1>3. iwf' = [iwf EXCEPT ![i] = w]
  BY <1>1 DEF ImportGoto
<1> QED BY <1>2, <1>3

\* A move that also keeps the status that the session has read.
Sees(i, pc) == iwf' = [iwf EXCEPT ![i].pc = pc, ![i].seen = importJob[i].status]

\* Such a move of a workflow.
LEMMA SeenRow ==
  ASSUME ImportRowsOK, NEW i \in Imports, NEW pc \in ImportPC, Sees(i, pc)
  PROVE  \E w \in WorkflowRows : /\ iwf' = [iwf EXCEPT ![i] = w] /\ w.pc = pc /\ w.seen = importJob[i].status
                                 /\ w.next = iwf[i].next /\ w.total = iwf[i].total
<1> DEFINE w == [iwf[i] EXCEPT !.pc = pc, !.seen = importJob[i].status]
<1>1. iwf[i] \in WorkflowRows /\ iwf \in [Imports -> WorkflowRows] /\ importJob[i].status \in ImportStatus
  BY DEF JobRows, ImportRowsOK
<1>2. w \in WorkflowRows /\ w.pc = pc /\ w.seen = importJob[i].status /\ w.next = iwf[i].next /\ w.total = iwf[i].total
  BY <1>1 DEF WorkflowRows
<1>3. iwf' = [iwf EXCEPT ![i] = w]
  BY <1>1 DEF Sees
<1> QED BY <1>2, <1>3

\* A session writes the status that it assigned, or leaves the one that is there.
Writes(i, seen, new) == importJob' = [importJob EXCEPT ![i].status = Written(i, seen, new)]

\* Such a write to a job.
LEMMA StatusRow ==
  ASSUME ImportRowsOK, NEW i \in Imports, NEW seen, NEW new \in ImportStatus, Writes(i, seen, new)
  PROVE  \E job \in JobRows :
            /\ importJob' = [importJob EXCEPT ![i] = job]
            /\ job.status \in {importJob[i].status, new} /\ job.status = Written(i, seen, new)
            /\ job.source = importJob[i].source /\ job.matter = importJob[i].matter
            /\ job.matched = importJob[i].matched /\ job.counts = importJob[i].counts
<1> DEFINE status == Written(i, seen, new)
           job == [importJob[i] EXCEPT !.status = status]
<1>1. importJob[i] \in JobRows /\ importJob \in [Imports -> JobRows]
  BY DEF ImportRowsOK
<1>2. status \in ImportStatus /\ status \in {importJob[i].status, new}
  BY <1>1 DEF Written, JobRows
<1>3. importJob' = [importJob EXCEPT ![i] = job]
  BY <1>1 DEF Writes
<1> HIDE DEF status
<1>4. /\ job \in JobRows /\ job.status = status
      /\ job.source = importJob[i].source /\ job.matter = importJob[i].matter
      /\ job.matched = importJob[i].matched /\ job.counts = importJob[i].counts
  BY <1>1, <1>2 DEF JobRows
<1>5. job.status = Written(i, seen, new)
  BY <1>4 DEF status
<1> HIDE DEF job
<1> QED BY <1>2, <1>3, <1>4, <1>5

(***************************************************************************)
(* The request, and the workflow of the import.                            *)
(***************************************************************************)

\* A request names the collection and the matter of an import that does not exist yet.
LEMMA RequestImportKeeps ==
  ASSUME ImportInv, NEW i \in Imports, NEW c \in Collections, NEW m \in Matters, RequestImport(i, c, m)
  PROVE  ImportInv'
<1> DEFINE job == [importJob[i] EXCEPT !.source = c, !.matter = m]
<1>1. importJob[i] \in JobRows /\ importJob \in [Imports -> JobRows]
  BY ImportRows
<1>2. job \in JobRows /\ job.status = importJob[i].status /\ job.matter = m
  BY <1>1 DEF JobRows
<1>3. importJob' = [importJob EXCEPT ![i] = job]
  BY <1>1 DEF RequestImport
<1>4. PICK w \in WorkflowRows : iwf' = [iwf EXCEPT ![i] = w] /\ w.pc = "accepted"
  BY GotoRow, ImportRows DEF RequestImport, ImportPC
<1> HIDE DEF job
<1>5. /\ selection' = selection /\ docs' = docs /\ batchRow' = batchRow /\ child' = child
      /\ cancel' = cancel /\ halted' = halted /\ iwf[i].pc = "none"
  BY DEF RequestImport, ImportAt
<1>6. (cancel \in [Imports -> CancelRows])' /\ (halted \subseteq Imports)'
  BY <1>5, ImportRows
<1>7. job.status # "COMPLETED" /\ w.pc \notin {"frozen", "run"} \cup Loaded /\ iwf[i].pc \in Early
  BY <1>2, <1>4, <1>5, SameRows DEF Loaded, Early
<1>8. selection[i].row => selection[i].total = Len(selection[i].items) /\ Unique(selection[i].items)
  BY SameRows DEF SelectionInv
<1>9. selection[i] \in SelectionRows /\ selection' = [selection EXCEPT ![i] = selection[i]]
  BY <1>5, SameRows
<1> QED BY <1>2, <1>3, <1>4, <1>5, <1>6, <1>7, <1>8, <1>9, LeavingKeeps

\* A job whose status changes while its workflow leaves the path to completion.
LEMMA StatusLeaves ==
  ASSUME ImportInv, NEW i \in Imports, NEW seen, NEW new \in ImportStatus, NEW pc \in ImportPC,
         Writes(i, seen, new), ImportGoto(i, pc),
         UNCHANGED <<selection, docs, batchRow, child, cancel, halted>>,
         pc \in Early => iwf[i].pc \in Early,
         pc \notin {"frozen", "run"} \cup Loaded, iwf[i].pc \notin {"none", "ended"}, new # "COMPLETED"
  PROVE  ImportInv'
<1>1. PICK w \in WorkflowRows : iwf' = [iwf EXCEPT ![i] = w] /\ w.pc = pc
  BY GotoRow, ImportRows
<1>2. PICK job \in JobRows :
          /\ importJob' = [importJob EXCEPT ![i] = job]
          /\ job.status \in {importJob[i].status, new} /\ job.status = Written(i, seen, new)
          /\ job.source = importJob[i].source /\ job.matter = importJob[i].matter
          /\ job.matched = importJob[i].matched /\ job.counts = importJob[i].counts
  <2>1. ImportRowsOK
    BY ImportRows
  <2> QED BY <2>1, StatusRow
<1>3. job.status # "COMPLETED"
  BY <1>2, SameRows
<1>4. (cancel \in [Imports -> CancelRows])' /\ (halted \subseteq Imports)'
  BY ImportRows
<1>5. selection[i].row => selection[i].total = Len(selection[i].items) /\ Unique(selection[i].items)
  BY SameRows DEF SelectionInv
<1>6. selection[i] \in SelectionRows /\ selection' = [selection EXCEPT ![i] = selection[i]]
  BY SameRows
<1>7. batchRow' = batchRow /\ child' = child /\ docs' = docs
  OBVIOUS
<1>8. (w.pc \in Early => iwf[i].pc \in Early) /\ w.pc \notin {"frozen", "run"} \cup Loaded
  BY <1>1
<1>9. \/ job.matter = importJob[i].matter /\ (iwf[i].pc = "none" => w.pc = "none")
      \/ job.matter \in Matters /\ iwf[i].pc \in Early
  BY <1>2
<1>10. iwf' = [iwf EXCEPT ![i] = w] /\ importJob' = [importJob EXCEPT ![i] = job]
  BY <1>1, <1>2
<1> QED BY <1>3, <1>10, <1>4, <1>5, <1>6, <1>7, <1>8, <1>9, LeavingKeeps

\* The job is created, or the import ends or starts again, without a claim to completion.
LEMMA CommitImportKeeps ==
  ASSUME ImportInv, NEW i \in Imports, CommitImport(i)
  PROVE  ImportInv'
<1> DEFINE job == [importJob[i] EXCEPT !.status = "QUEUED"]
<1>1. importJob[i] \in JobRows /\ importJob \in [Imports -> JobRows]
  BY ImportRows
<1>2. job \in JobRows /\ job.status = "QUEUED" /\ job.matter = importJob[i].matter
  BY <1>1 DEF JobRows, ImportStatus
<1>3. importJob' = [importJob EXCEPT ![i] = job]
  BY <1>1 DEF CommitImport
<1>4. PICK w \in WorkflowRows : iwf' = [iwf EXCEPT ![i] = w] /\ w.pc = "freeze"
  BY GotoRow, ImportRows DEF CommitImport, ImportPC
<1> HIDE DEF job
<1>5. /\ selection' = selection /\ docs' = docs /\ batchRow' = batchRow /\ child' = child
      /\ cancel' = cancel /\ halted' = halted /\ iwf[i].pc = "accepted"
  BY DEF CommitImport, ImportAt
<1>6. (cancel \in [Imports -> CancelRows])' /\ (halted \subseteq Imports)'
  BY <1>5, ImportRows
<1>7. job.status # "COMPLETED" /\ w.pc \notin {"frozen", "run"} \cup Loaded /\ iwf[i].pc \in Early
  BY <1>2, <1>4, <1>5 DEF Loaded, Early
<1>8. selection[i].row => selection[i].total = Len(selection[i].items) /\ Unique(selection[i].items)
  BY SameRows DEF SelectionInv
<1>9. selection[i] \in SelectionRows /\ selection' = [selection EXCEPT ![i] = selection[i]]
  BY <1>5, SameRows
<1> QED BY <1>2, <1>3, <1>4, <1>5, <1>6, <1>7, <1>8, <1>9, LeavingKeeps

\* The first steps of the workflow, and those that end it, move it without a claim.
LEMMA LeavingMoves ==
  ASSUME ImportInv, NEW i \in Imports, NEW pc \in ImportPC,
         UNCHANGED <<storeVars, batchRow, child, cancel, halted>>,
         ImportGoto(i, pc) \/ Sees(i, pc),
         pc \in Early => iwf[i].pc \in Early,
         pc \notin {"frozen", "run"} \cup Loaded, iwf[i].pc \notin {"none", "ended"}
  PROVE  ImportInv'
<1>1. PICK w \in WorkflowRows : /\ iwf' = [iwf EXCEPT ![i] = w] /\ w.pc = pc
                                /\ w.next = iwf[i].next /\ w.total = iwf[i].total
  BY GotoRow, SeenRow, ImportRows
<1>2. (w.pc \in Early => iwf[i].pc \in Early) /\ w.pc \notin {"frozen", "run"} \cup Loaded
  BY <1>1
<1> QED BY <1>1, <1>2, LeavingAlone

\* The first transaction of the freeze.
LEMMA FreezeReadKeeps == ASSUME ImportInv, NEW i \in Imports, FreezeRead(i) PROVE ImportInv'
<1>1. iwf[i].pc = "freeze" /\ UNCHANGED <<storeVars, batchRow, child, cancel, halted>>
  BY DEF FreezeRead, ImportAt
<1>2. CASE importJob[i].status = "CANCELED"
  <2>1. ImportGoto(i, "ended")
    BY <1>2 DEF FreezeRead, ImportGoto
  <2> QED BY <1>1, <2>1, LeavingMoves DEF ImportPC, Early, Loaded
<1>3. CASE importJob[i].status # "CANCELED"
  <2>1. Sees(i, "mark")
    BY <1>3 DEF FreezeRead, Sees
  <2> QED BY <1>1, <2>1, LeavingMoves DEF ImportPC, Early, Loaded
<1> QED BY <1>2, <1>3

\* The second transaction of the freeze writes a status.
LEMMA FreezeMarkKeeps == ASSUME ImportInv, NEW i \in Imports, FreezeMark(i) PROVE ImportInv'
<1>1. /\ iwf[i].pc = "mark" /\ ImportGoto(i, "select")
      /\ UNCHANGED <<selection, docs, batchRow, child, cancel, halted>>
      /\ Writes(i, iwf[i].seen, "SNAPSHOTTING")
  BY DEF FreezeMark, ImportAt, Writes
<1>2. /\ "SNAPSHOTTING" \in ImportStatus /\ "select" \in ImportPC /\ iwf[i].pc \in Early
      /\ "select" \notin {"frozen", "run"} \cup Loaded
  BY <1>1 DEF ImportStatus, ImportPC, Early, Loaded
<1> QED BY <1>1, <1>2, StatusLeaves

\* The selection of a collection that is gone fails the import.
LEMMA SelectReadKeeps == ASSUME ImportInv, NEW i \in Imports, SelectRead(i) PROVE ImportInv'
<1>1. iwf[i].pc = "select" /\ UNCHANGED <<storeVars, batchRow, child, cancel, halted>>
  BY DEF SelectRead, ImportAt
<1>2. ImportGoto(i, "insert") \/ ImportGoto(i, "fail")
  BY DEF SelectRead
<1>3. /\ "insert" \in ImportPC /\ "fail" \in ImportPC /\ iwf[i].pc \in Early
      /\ "insert" \notin {"frozen", "run"} \cup Loaded /\ "fail" \notin {"frozen", "run"} \cup Loaded
  BY <1>1 DEF ImportPC, Early, Loaded
<1> QED BY <1>1, <1>2, <1>3, LeavingMoves

\* A selection that is removed.
LEMMA NoSelectionRow == NoSelection \in SelectionRows /\ ~NoSelection.row
  BY DEF NoSelection, SelectionRows

\* The selection of a canceled import is dropped.
LEMMA DropKeeps == ASSUME ImportInv, NEW i \in Imports, Drop(i) PROVE ImportInv'
<1>1. /\ iwf[i].pc = "drop" /\ selection' = [selection EXCEPT ![i] = NoSelection]
      /\ importJob' = importJob /\ docs' = docs /\ batchRow' = batchRow /\ child' = child
      /\ cancel' = cancel /\ halted' = halted
  BY DEF Drop, ImportAt, RemoveSelection
<1>2. PICK w \in WorkflowRows : iwf' = [iwf EXCEPT ![i] = w] /\ w.pc = "ended"
  BY GotoRow, ImportRows DEF Drop, ImportPC
<1>3. (cancel \in [Imports -> CancelRows])' /\ (halted \subseteq Imports)'
  BY <1>1, ImportRows
<1>4. /\ importJob[i] \in JobRows /\ importJob' = [importJob EXCEPT ![i] = importJob[i]]
      /\ importJob[i].status # "COMPLETED"
  BY <1>1, SameRows
<1>5. w.pc \notin Early /\ w.pc \notin {"frozen", "run"} \cup Loaded
  BY <1>2 DEF Early, Loaded
<1> QED BY <1>1, <1>2, <1>3, <1>4, <1>5, NoSelectionRow, LeavingKeeps

\* The failure of an import is read and written.
LEMMA FailReadKeeps == ASSUME ImportInv, NEW i \in Imports, FailRead(i) PROVE ImportInv'
<1>1. iwf[i].pc = "fail" /\ UNCHANGED <<storeVars, batchRow, child, cancel, halted>>
  BY DEF FailRead, ImportAt
<1>2. CASE importJob[i].status = "CANCELED"
  <2>1. ImportGoto(i, "ended")
    BY <1>2 DEF FailRead, ImportGoto
  <2> QED BY <1>1, <2>1, LeavingMoves DEF ImportPC, Early, Loaded
<1>3. CASE importJob[i].status # "CANCELED"
  <2>1. Sees(i, "failwrite")
    BY <1>3 DEF FailRead, Sees
  <2> QED BY <1>1, <2>1, LeavingMoves DEF ImportPC, Early, Loaded
<1> QED BY <1>2, <1>3

\* See FailReadKeeps.
LEMMA FailWriteKeeps == ASSUME ImportInv, NEW i \in Imports, FailWrite(i) PROVE ImportInv'
<1>1. /\ iwf[i].pc = "failwrite" /\ ImportGoto(i, "ended")
      /\ UNCHANGED <<selection, docs, batchRow, child, cancel, halted>>
      /\ Writes(i, iwf[i].seen, "FAILED")
  BY DEF FailWrite, ImportAt, Writes
<1>2. /\ "FAILED" \in ImportStatus /\ "ended" \in ImportPC /\ "ended" \notin Early
      /\ "ended" \notin {"frozen", "run"} \cup Loaded
  BY <1>1 DEF ImportStatus, ImportPC, Early, Loaded
<1> QED BY <1>1, <1>2, StatusLeaves

\* A canceled workflow stops before its next step.
LEMMA HaltKeeps == ASSUME ImportInv, NEW i \in Imports, Halt(i) PROVE ImportInv'
<1>1. /\ iwf[i].pc \notin {"none", "ended"} /\ ImportGoto(i, "halted")
      /\ UNCHANGED <<storeVars, batchRow, child, cancel, halted>>
  BY DEF Halt
<1>2. "halted" \in ImportPC /\ "halted" \notin Early /\ "halted" \notin {"frozen", "run"} \cup Loaded
  BY DEF ImportPC, Early, Loaded
<1> QED BY <1>1, <1>2, LeavingMoves

\* A step that exhausts its retries fails the import.
LEMMA ImportGivesUpKeeps == ASSUME ImportInv, NEW i \in Imports, ImportGivesUp(i) PROVE ImportInv'
<1>1. /\ iwf[i].pc \notin {"none", "ended"} /\ ImportGoto(i, "fail")
      /\ UNCHANGED <<storeVars, batchRow, child, cancel, halted>>
  BY DEF ImportGivesUp
<1>2. "fail" \in ImportPC /\ "fail" \notin Early /\ "fail" \notin {"frozen", "run"} \cup Loaded
  BY DEF ImportPC, Early, Loaded
<1> QED BY <1>1, <1>2, LeavingMoves

(***************************************************************************)
(* The path of an import to its completion.                                *)
(***************************************************************************)

\* The session of a workflow changes no other row of DBOS or of the cancel requests.
LEMMA CancelRowsKept ==
  ASSUME ImportInv, cancel' = cancel, halted' = halted
  PROVE  (cancel \in [Imports -> CancelRows])' /\ (halted \subseteq Imports)'
  BY ImportRows

\* The selection is frozen: it is the plan of the import, which has no batches yet.
LEMMA FrozenKeeps ==
  ASSUME ImportInv, NEW i \in Imports, iwf[i].pc = "insert",
         NEW sel \in SelectionRows, selection' = [selection EXCEPT ![i] = sel],
         sel.row, sel.total = Len(sel.items), Unique(sel.items),
         iwf' = [iwf EXCEPT ![i].pc = "frozen", ![i].total = sel.total],
         UNCHANGED <<importJob, docs, batchRow, child, cancel, halted>>
  PROVE  ImportInv'
<1> DEFINE w == [iwf[i] EXCEPT !.pc = "frozen", !.total = sel.total]
<1>1. iwf[i] \in WorkflowRows /\ iwf \in [Imports -> WorkflowRows] /\ selection \in [Imports -> SelectionRows]
  BY ImportRows
<1>2. w \in WorkflowRows /\ w.pc = "frozen" /\ w.total = sel.total
  BY <1>1 DEF WorkflowRows, SelectionRows, ImportPC
<1>3. iwf' = [iwf EXCEPT ![i] = w]
  BY <1>1
<1> HIDE DEF w
<1>4. iwf'[i] = w /\ selection'[i] = sel
  BY <1>1, <1>3
<1>5. iwf[i].pc \in Early /\ "frozen" \in Early /\ "frozen" \notin Loaded
  BY DEF Early, Loaded
<1>6. \A k \in Batches : child[i][k].pc = "none"
  BY <1>5, SameRows DEF BatchInv, Agreed
<1>7. ~Completed(i)'
  BY SameRows DEF Completed
<1>8. LinkedInv(i)'
  BY <1>2, <1>4, <1>7 DEF LinkedInv, MayComplete
<1>9. PlanInv(i)'
  <2>1. sel.items \in Seq(ItemArtifacts)
    BY DEF SelectionRows
  <2> QED BY <1>2, <1>4, <1>6, <2>1 DEF PlanInv
<1>10. ProgressInv(i)'
  BY <1>2, <1>4, <1>5, <1>7 DEF ProgressInv, Loaded
<1>11. /\ importJob[i] \in JobRows /\ importJob' = [importJob EXCEPT ![i] = importJob[i]]
       /\ batchRow' = batchRow /\ child' = child /\ docs' = docs
  BY SameRows
<1> QED BY <1>2, <1>3, <1>5, <1>8, <1>9, <1>10, <1>11, CancelRowsKept, WorkflowKeeps

\* The selection of the request: the one that exists, or the items that match now.
LEMMA SelectInsertKeeps == ASSUME ImportInv, NEW i \in Imports, SelectInsert(i) PROVE ImportInv'
<1>1. /\ iwf[i].pc = "insert"
      /\ UNCHANGED <<importJob, docs, batchRow, child, cancel, halted>>
  BY DEF SelectInsert, ImportAt
<1>2. CASE /\ selection[i].row
           /\ iwf' = [iwf EXCEPT ![i].pc = "frozen", ![i].total = selection[i].total]
           /\ UNCHANGED selection
  <2>1. selection[i].total = Len(selection[i].items) /\ Unique(selection[i].items)
    BY <1>2, SameRows DEF SelectionInv
  <2>2. selection[i] \in SelectionRows /\ selection' = [selection EXCEPT ![i] = selection[i]]
    BY <1>2, SameRows
  <2> QED BY <1>1, <1>2, <2>1, <2>2, FrozenKeeps
<1>3. ASSUME NEW matched \in SUBSET ItemsOf(importJob[i].source),
             selection' = [selection EXCEPT ![i] = [row   |-> TRUE,
                                                    items |-> SetToSeq(matched),
                                                    total |-> Cardinality(matched)]],
             iwf' = [iwf EXCEPT ![i].pc = "frozen", ![i].total = Cardinality(matched)]
      PROVE  ImportInv'
  <2>1. matched \subseteq ItemArtifacts
    BY DEF ItemsOf
  <2>2. IsFiniteSet(matched)
    BY <2>1, StoreAssumption, FS_Subset
  <2>3. PICK s, n : s = SetToSeq(matched) /\ n = Cardinality(matched)
    OBVIOUS
  <2>4. /\ s \in Seq(matched) /\ Len(s) = n /\ n \in Nat
        /\ \A x, y \in 1..n : s[x] = s[y] => x = y
    BY <2>2, <2>3, EnumerationIsSequence, FS_CardinalityType
  <2>5. Unique(s) /\ s \in Seq(ItemArtifacts)
    BY <2>1, <2>4 DEF Unique
  <2> DEFINE sel == [row |-> TRUE, items |-> s, total |-> n]
  <2>6. sel \in SelectionRows
    BY <2>4, <2>5 DEF SelectionRows
  <2>7. selection' = [selection EXCEPT ![i] = sel]
    BY <1>3, <2>3
  <2>8. iwf' = [iwf EXCEPT ![i].pc = "frozen", ![i].total = sel.total]
    BY <1>3, <2>3
  <2>9. sel.row /\ sel.total = Len(sel.items) /\ Unique(sel.items)
    BY <2>4, <2>5
  <2> HIDE DEF sel
  <2> QED BY <1>1, <2>6, <2>7, <2>8, <2>9, FrozenKeeps
<1>4. CASE ImportGoto(i, "fail") /\ UNCHANGED selection
  <2>1. PICK w \in WorkflowRows : iwf' = [iwf EXCEPT ![i] = w] /\ w.pc = "fail"
    BY <1>4, GotoRow, ImportRows DEF ImportPC
  <2>2. w.pc \notin Early /\ w.pc \notin {"frozen", "run"} \cup Loaded
    BY <2>1 DEF Early, Loaded
  <2>3. selection[i].row => selection[i].total = Len(selection[i].items) /\ Unique(selection[i].items)
    BY SameRows DEF SelectionInv
  <2>4. /\ importJob[i] \in JobRows /\ importJob' = [importJob EXCEPT ![i] = importJob[i]]
        /\ selection[i] \in SelectionRows /\ selection' = [selection EXCEPT ![i] = selection[i]]
        /\ importJob[i].status # "COMPLETED"
        /\ batchRow' = batchRow /\ child' = child /\ docs' = docs
    BY <1>1, <1>4, SameRows
  <2> QED BY <1>1, <2>1, <2>2, <2>3, <2>4, CancelRowsKept, LeavingKeeps
<1> QED BY <1>2, <1>3, <1>4 DEF SelectInsert

\* Rows of the store that a step leaves alone.
LEMMA StoreKept ==
  ASSUME ImportInv, NEW i \in Imports, UNCHANGED <<storeVars, batchRow, cancel, halted>>
  PROVE  /\ importJob[i] \in JobRows /\ importJob' = [importJob EXCEPT ![i] = importJob[i]]
         /\ selection[i] \in SelectionRows /\ selection' = [selection EXCEPT ![i] = selection[i]]
         /\ selection[i].row => selection[i].total = Len(selection[i].items) /\ Unique(selection[i].items)
         /\ importJob' = importJob /\ selection' = selection /\ docs' = docs /\ batchRow' = batchRow
         /\ (cancel \in [Imports -> CancelRows])' /\ (halted \subseteq Imports)'
<1>1. /\ importJob' = importJob /\ selection' = selection /\ docs' = docs /\ batchRow' = batchRow
      /\ cancel' = cancel /\ halted' = halted
  BY DEF storeVars
<1>2. selection[i].row => selection[i].total = Len(selection[i].items) /\ Unique(selection[i].items)
  BY SameRows DEF SelectionInv
<1> QED BY <1>1, <1>2, SameRows, CancelRowsKept

\* The plan of an import stays when its workflow moves on, even if the selection is removed.
LEMMA PlanStays ==
  ASSUME NEW i \in Imports, PlanInv(i), iwf[i].pc \in {"frozen", "run"} \cup Loaded,
         iwf'[i].total = iwf[i].total, child' = child,
         selection'[i].row => selection[i].row /\ selection'[i].items = selection[i].items
  PROVE  PlanInv(i)'
  BY DEF PlanInv

\* The job is read again after the freeze.
LEMMA FrozenReadKeeps == ASSUME ImportInv, NEW i \in Imports, FrozenRead(i) PROVE ImportInv'
<1>1. iwf[i].pc = "frozen" /\ UNCHANGED <<storeVars, batchRow, child, cancel, halted>>
  BY DEF FrozenRead, ImportAt
<1>2. CASE importJob[i].status = "CANCELED"
  <2>1. Sees(i, "drop")
    BY <1>2 DEF FrozenRead, Sees
  <2> QED BY <1>1, <2>1, LeavingMoves DEF ImportPC, Early, Loaded
<1>3. CASE importJob[i].status # "CANCELED"
  <2>1. Sees(i, "run")
    BY <1>3 DEF FrozenRead, Sees
  <2>2. PICK w \in WorkflowRows : /\ iwf' = [iwf EXCEPT ![i] = w] /\ w.pc = "run"
                                  /\ w.seen = importJob[i].status
                                  /\ w.next = iwf[i].next /\ w.total = iwf[i].total
    <3>1. ImportRowsOK /\ "run" \in ImportPC
      BY ImportRows DEF ImportPC
    <3> QED BY <2>1, <3>1, SeenRow
  <2>3. iwf'[i] = w /\ "run" \notin Loaded /\ "run" \in Early /\ iwf[i].pc \in Early
    BY <1>1, <2>2, ImportRows DEF Loaded, Early
  <2>4. ~Completed(i)' /\ child' = child
    BY <1>1, StoreKept, SameRows DEF Completed
  <2>5. LinkedInv(i)'
    BY <2>2, <2>3, <2>4 DEF LinkedInv, MayComplete
  <2>6. PlanInv(i)'
    BY <1>1, <2>2, <2>3, <2>4, StoreKept, SameRows, PlanStays
  <2>7. ProgressInv(i)'
    BY <2>2, <2>3, <2>4 DEF ProgressInv
  <2> QED BY <1>1, <2>2, <2>3, <2>4, <2>5, <2>6, <2>7, StoreKept, WorkflowKeeps
<1> QED BY <1>2, <1>3

\* The import is RUNNING, and has no batches yet.
LEMMA RunKeeps == ASSUME ImportInv, NEW i \in Imports, Run(i) PROVE ImportInv'
<1> DEFINE status == Written(i, iwf[i].seen, "RUNNING")
           job == [importJob[i] EXCEPT !.status = status, !.frozen = TRUE, !.matched = iwf[i].total]
           w == [iwf[i] EXCEPT !.pc = "load", !.next = 1]
<1>1. /\ importJob[i] \in JobRows /\ importJob \in [Imports -> JobRows]
      /\ iwf[i] \in WorkflowRows /\ iwf \in [Imports -> WorkflowRows] /\ iwf[i].total \in Nat
      /\ selection \in [Imports -> SelectionRows]
  BY ImportRows DEF WorkflowRows
<1>2. /\ iwf[i].pc = "run" /\ iwf' = [iwf EXCEPT ![i] = w]
      /\ importJob' = [importJob EXCEPT ![i] = job]
      /\ selection' = selection /\ docs' = docs /\ batchRow' = batchRow /\ child' = child
      /\ cancel' = cancel /\ halted' = halted
  BY <1>1 DEF Run, ImportAt
<1>3. status \in ImportStatus /\ status # "COMPLETED"
  <2>1. importJob[i].status # "COMPLETED" /\ importJob[i].status \in ImportStatus
    BY <1>1, <1>2, SameRows DEF JobRows
  <2> QED BY <2>1 DEF Written, ImportStatus
<1> HIDE DEF status
<1>4. /\ job \in JobRows /\ job.status = status /\ job.matter = importJob[i].matter
      /\ job.matched = iwf[i].total
  BY <1>1, <1>3 DEF JobRows
<1>5. w \in WorkflowRows /\ w.pc = "load" /\ w.next = 1 /\ w.total = iwf[i].total
  BY <1>1 DEF WorkflowRows, ImportPC
<1> HIDE DEF job, w
<1>6. iwf'[i] = w /\ importJob'[i] = job /\ iwf[i].pc \in Early /\ w.pc \notin Early
  BY <1>1, <1>2, <1>5 DEF Early
<1>7. \A k \in Batches : child[i][k].pc = "none" /\ batchRow[i][k].status = "NONE"
  BY <1>6, SameRows DEF BatchInv, Agreed
<1>8. LinkedInv(i)'
  BY <1>2, <1>7 DEF LinkedInv
<1>9. PlanInv(i)'
  BY <1>2, <1>5, <1>6, SameRows, PlanStays
<1>10. ProgressInv(i)'
  <2>1. ~Completed(i)'
    BY <1>3, <1>4, <1>6 DEF Completed
  <2>2. BatchCount(iwf[i].total) \in Nat
    BY <1>1, BatchCounts
  <2>3. \A k \in Batches : ~(k < 1)
    BY DEF Batches
  <2>4. 1 \in 1..BatchCount(iwf[i].total) + 1
    BY <2>2
  <2> QED BY <1>2, <1>4, <1>5, <1>6, <1>7, <2>1, <2>3, <2>4 DEF ProgressInv
<1>11. /\ selection[i] \in SelectionRows /\ selection' = [selection EXCEPT ![i] = selection[i]]
       /\ selection[i].row => selection[i].total = Len(selection[i].items) /\ Unique(selection[i].items)
  BY <1>2, SameRows DEF SelectionInv
<1> QED BY <1>2, <1>4, <1>5, <1>6, <1>8, <1>9, <1>10, <1>11, CancelRowsKept, WorkflowKeeps

\* The selection is removed after all batches are enqueued.
LEMMA CleanupKeeps == ASSUME ImportInv, NEW i \in Imports, Cleanup(i) PROVE ImportInv'
<1> DEFINE job == [importJob[i] EXCEPT !.frozen = FALSE]
<1>1. /\ importJob[i] \in JobRows /\ importJob \in [Imports -> JobRows]
      /\ iwf \in [Imports -> WorkflowRows] /\ selection \in [Imports -> SelectionRows]
  BY ImportRows
<1>2. /\ iwf[i].pc = "cleanup" /\ selection' = [selection EXCEPT ![i] = NoSelection]
      /\ importJob' = [importJob EXCEPT ![i] = job]
      /\ docs' = docs /\ batchRow' = batchRow /\ child' = child /\ cancel' = cancel /\ halted' = halted
  BY <1>1 DEF Cleanup, ImportAt, RemoveSelection
<1>3. PICK w \in WorkflowRows : /\ iwf' = [iwf EXCEPT ![i] = w] /\ w.pc = "await"
                                /\ w.next = iwf[i].next /\ w.total = iwf[i].total
  BY GotoRow, ImportRows DEF Cleanup, ImportPC
<1>4. /\ job \in JobRows /\ job.status = importJob[i].status /\ job.matter = importJob[i].matter
      /\ job.matched = importJob[i].matched
  BY <1>1 DEF JobRows
<1> HIDE DEF job
<1>5. iwf'[i] = w /\ importJob'[i] = job /\ ~selection'[i].row /\ w.pc \notin Early
  BY <1>1, <1>2, <1>3, NoSelectionRow DEF Early
<1>6. ~Completed(i)' /\ importJob[i].status # "COMPLETED"
  BY <1>2, <1>4, <1>5, SameRows DEF Completed
<1>7. LinkedInv(i)'
  <2>1. MayComplete(i)' => MayComplete(i)
    BY <1>2, <1>3, <1>4, <1>5, <1>6 DEF MayComplete
  <2>2. InMatter(importJob[i].matter)' = InMatter(importJob[i].matter)
    BY <1>2, <1>4, <1>5 DEF InMatter
  <2> QED BY <1>2, <2>1, <2>2, SameRows DEF LinkedInv, Linked
<1>8. PlanInv(i)'
  <2>1. iwf[i].pc \in Loaded
    BY <1>2 DEF Loaded
  <2> QED BY <1>2, <1>3, <1>5, <2>1, SameRows, PlanStays
<1>9. ProgressInv(i)'
  <2>1. /\ \A k \in Batches : child[i][k].pc # "none" <=> k <= BatchCount(iwf[i].total)
        /\ importJob[i].matched = iwf[i].total
    BY <1>2, SameRows DEF ProgressInv, Loaded
  <2> QED BY <1>2, <1>3, <1>4, <1>5, <1>6, <2>1 DEF ProgressInv
<1> QED BY <1>2, <1>3, <1>4, <1>5, <1>7, <1>8, <1>9, NoSelectionRow, CancelRowsKept, WorkflowKeeps

\* The batches are awaited: all are done, or one of them fails the import.
LEMMA AwaitKeeps == ASSUME ImportInv, NEW i \in Imports, Await(i) PROVE ImportInv'
<1>1. iwf[i].pc = "await" /\ UNCHANGED <<storeVars, batchRow, child, cancel, halted>>
  BY DEF Await, ImportAt
<1>2. CASE ImportGoto(i, "fail")
  BY <1>1, <1>2, LeavingMoves DEF ImportPC, Early, Loaded
<1>3. CASE /\ \A k \in 1..BatchCount(iwf[i].total) : child[i][k].pc = "done"
           /\ ImportGoto(i, "complete")
  <2>1. PICK w \in WorkflowRows : /\ iwf' = [iwf EXCEPT ![i] = w] /\ w.pc = "complete"
                                  /\ w.next = iwf[i].next /\ w.total = iwf[i].total
    BY <1>3, GotoRow, ImportRows DEF ImportPC
  <2>2. iwf'[i] = w /\ w.pc \notin Early /\ child' = child
    BY <1>1, <2>1, ImportRows DEF Early
  <2>3. ~Completed(i)' /\ importJob[i].status # "COMPLETED"
    BY <1>1, StoreKept, SameRows DEF Completed
  <2>4. LinkedInv(i)'
    <3>1. MayComplete(i)' => MayComplete(i)
      BY <1>1, <2>1, <2>2, <2>3, StoreKept DEF MayComplete
    <3> QED BY <1>1, <2>2, <3>1, StoreKept, SameRows DEF LinkedInv, Linked, InMatter
  <2>5. PlanInv(i)'
    <3>1. iwf[i].pc \in Loaded
      BY <1>1 DEF Loaded
    <3> QED BY <1>1, <2>1, <2>2, <3>1, StoreKept, SameRows, PlanStays
  <2>6. ProgressInv(i)'
    <3>1. /\ \A k \in Batches : child[i][k].pc # "none" <=> k <= BatchCount(iwf[i].total)
          /\ importJob[i].matched = iwf[i].total /\ ~selection[i].row
      BY <1>1, SameRows DEF ProgressInv, Loaded
    <3>2. \A k \in Batches : child[i][k].pc \in {"none", "done"}
      BY <1>3, <3>1 DEF Batches
    <3>3. importJob' = importJob /\ selection' = selection
      BY <1>1, StoreKept
    <3> QED BY <2>1, <2>2, <2>3, <3>1, <3>2, <3>3 DEF ProgressInv
  <2> QED BY <1>1, <2>1, <2>2, <2>4, <2>5, <2>6, StoreKept, WorkflowKeeps
<1> QED BY <1>2, <1>3 DEF Await

\* The batches that are done are all there, with their counts in the job.
LEMMA CompleteReadKeeps == ASSUME ImportInv, NEW i \in Imports, CompleteRead(i) PROVE ImportInv'
<1>1. /\ iwf[i].pc = "complete" /\ selection' = selection /\ docs' = docs /\ batchRow' = batchRow
      /\ child' = child /\ cancel' = cancel /\ halted' = halted
      /\ UNCHANGED <<collection, artifact>>
  BY DEF CompleteRead, ImportAt
<1>2. CASE importJob[i].status = "CANCELED"
  <2>1. ImportGoto(i, "ended") /\ UNCHANGED <<storeVars, batchRow, child, cancel, halted>>
    BY <1>1, <1>2 DEF CompleteRead, storeVars
  <2> QED BY <1>1, <2>1, LeavingMoves DEF ImportPC, Early, Loaded
<1>3. CASE importJob[i].status # "CANCELED"
  <2> DEFINE counts == Merged(i, importJob[i].counts, BatchTotals(i))
             job == [importJob[i] EXCEPT !.counts = counts]
             w == [iwf[i] EXCEPT !.pc = "finish", !.seen = importJob[i].status]
  <2>1. /\ importJob[i] \in JobRows /\ importJob \in [Imports -> JobRows]
        /\ iwf[i] \in WorkflowRows /\ iwf \in [Imports -> WorkflowRows]
        /\ selection \in [Imports -> SelectionRows]
    BY ImportRows
  <2>2. importJob' = [importJob EXCEPT ![i] = job] /\ iwf' = [iwf EXCEPT ![i] = w]
    BY <1>3, <2>1 DEF CompleteRead
  <2>3. /\ counts \in ImportCounts
        /\ counts.added = Count(i, "added") /\ counts.duplicate = Count(i, "duplicate")
    <3>1. /\ Count(i, "added") \in Nat /\ Count(i, "duplicate") \in Nat /\ Count(i, "items") \in Nat
      BY CountType, ImportRows
    <3>2. BatchTotals(i) = [processed |-> Count(i, "items"), added |-> Count(i, "added"),
                            duplicate |-> Count(i, "duplicate")]
      BY DEF BatchTotals
    <3>3. importJob[i].counts \in ImportCounts
      BY <2>1 DEF JobRows
    <3>4. counts = [f \in {"processed", "added", "duplicate"} |-> BatchTotals(i)[f]]
      BY DEF Merged
    <3>5. counts = BatchTotals(i)
      BY <3>2, <3>4
    <3> QED BY <3>1, <3>2, <3>5 DEF ImportCounts
  <2> HIDE DEF counts
  <2>4. /\ job \in JobRows /\ job.status = importJob[i].status /\ job.matter = importJob[i].matter
        /\ job.matched = importJob[i].matched /\ job.counts = counts
    BY <2>1, <2>3 DEF JobRows
  <2>5. w \in WorkflowRows /\ w.pc = "finish" /\ w.total = iwf[i].total
    BY <2>1 DEF WorkflowRows, JobRows, ImportPC
  <2> HIDE DEF job, w
  <2>6. iwf'[i] = w /\ importJob'[i] = job /\ w.pc \notin Early
    BY <2>1, <2>2, <2>5 DEF Early
  <2>7. ~Completed(i)'
    BY <1>1, <2>4, <2>6, SameRows DEF Completed
  <2>8. LinkedInv(i)'
    <3>1. MayComplete(i)
      BY <1>1, <1>3 DEF MayComplete
    <3>2. InMatter(importJob[i].matter)' = InMatter(importJob[i].matter)
      BY <1>1, <2>4, <2>6 DEF InMatter
    <3> QED BY <1>1, <3>1, <3>2, SameRows DEF LinkedInv, Linked
  <2>9. PlanInv(i)'
    <3>1. iwf[i].pc \in Loaded
      BY <1>1 DEF Loaded
    <3> QED BY <1>1, <2>5, <2>6, <3>1, SameRows, PlanStays
  <2>10. ProgressInv(i)'
    <3>1. /\ \A k \in Batches : child[i][k].pc # "none" <=> k <= BatchCount(iwf[i].total)
          /\ importJob[i].matched = iwf[i].total /\ ~selection[i].row
          /\ \A k \in Batches : child[i][k].pc \in {"none", "done"}
      BY <1>1, SameRows DEF ProgressInv, Loaded
    <3>2. \A f : Count(i, f)' = Count(i, f)
      BY <1>1 DEF Count
    <3> QED BY <1>1, <2>3, <2>4, <2>5, <2>6, <2>7, <3>1, <3>2 DEF ProgressInv
  <2>11. /\ selection[i] \in SelectionRows /\ selection' = [selection EXCEPT ![i] = selection[i]]
         /\ selection[i].row => selection[i].total = Len(selection[i].items) /\ Unique(selection[i].items)
    BY <1>1, SameRows DEF SelectionInv
  <2> QED BY <1>1, <2>2, <2>4, <2>5, <2>6, <2>8, <2>9, <2>10, <2>11, CancelRowsKept, WorkflowKeeps
<1> QED BY <1>2, <1>3

\* The import becomes COMPLETED, with what its path has established.
LEMMA FinishKeeps == ASSUME ImportInv, NEW i \in Imports, Finish(i) PROVE ImportInv'
<1> DEFINE status == Written(i, iwf[i].seen, "COMPLETED")
           counts == [importJob[i].counts EXCEPT !.processed = importJob[i].matched]
           job == [importJob[i] EXCEPT !.status = status, !.counts = counts, !.frozen = FALSE]
<1>1. /\ importJob[i] \in JobRows /\ importJob \in [Imports -> JobRows]
      /\ iwf \in [Imports -> WorkflowRows] /\ selection \in [Imports -> SelectionRows]
      /\ importJob[i].counts \in ImportCounts /\ importJob[i].matched \in Nat
  BY ImportRows DEF JobRows
<1>2. /\ iwf[i].pc = "finish" /\ importJob' = [importJob EXCEPT ![i] = job]
      /\ selection' = selection /\ docs' = docs /\ batchRow' = batchRow /\ child' = child
      /\ cancel' = cancel /\ halted' = halted
  BY <1>1 DEF Finish, ImportAt, JobRows
<1>3. PICK w \in WorkflowRows : /\ iwf' = [iwf EXCEPT ![i] = w] /\ w.pc = "ended"
                                /\ w.next = iwf[i].next /\ w.total = iwf[i].total
  BY GotoRow, ImportRows DEF Finish, ImportPC
<1>4. status \in ImportStatus
  BY <1>1 DEF Written, ImportStatus, JobRows
<1>5. /\ counts \in ImportCounts /\ counts.processed = importJob[i].matched
      /\ counts.added = importJob[i].counts.added /\ counts.duplicate = importJob[i].counts.duplicate
  BY <1>1 DEF ImportCounts
<1> HIDE DEF status, counts
<1>6. /\ job \in JobRows /\ job.matter = importJob[i].matter
      /\ job.matched = importJob[i].matched /\ job.counts = counts
  BY <1>1, <1>4, <1>5 DEF JobRows
<1> HIDE DEF job
<1>7. iwf'[i] = w /\ importJob'[i] = job /\ w.pc \notin Early /\ w.pc \notin Loaded
  BY <1>1, <1>2, <1>3, <1>6 DEF Early, Loaded
<1>8. LinkedInv(i)'
  <2>1. MayComplete(i)
    BY <1>2 DEF MayComplete
  <2>2. InMatter(importJob[i].matter)' = InMatter(importJob[i].matter)
    BY <1>2, <1>6, <1>7 DEF InMatter
  <2> QED BY <1>2, <2>1, <2>2, SameRows DEF LinkedInv, Linked
<1>9. PlanInv(i)'
  <2>1. iwf[i].pc \in Loaded
    BY <1>2 DEF Loaded
  <2> QED BY <1>2, <1>3, <1>7, <2>1, SameRows, PlanStays
<1>10. ProgressInv(i)'
  <2>1. /\ \A k \in Batches : child[i][k].pc # "none" <=> k <= BatchCount(iwf[i].total)
        /\ importJob[i].matched = iwf[i].total /\ ~selection[i].row
        /\ \A k \in Batches : child[i][k].pc \in {"none", "done"}
        /\ importJob[i].counts.added = Count(i, "added")
        /\ importJob[i].counts.duplicate = Count(i, "duplicate")
    BY <1>2, SameRows DEF ProgressInv, Loaded
  <2>2. \A f : Count(i, f)' = Count(i, f)
    BY <1>2 DEF Count
  <2> QED BY <1>2, <1>3, <1>5, <1>6, <1>7, <2>1, <2>2 DEF ProgressInv, Loaded
<1>11. /\ selection[i] \in SelectionRows /\ selection' = [selection EXCEPT ![i] = selection[i]]
       /\ selection[i].row => selection[i].total = Len(selection[i].items) /\ Unique(selection[i].items)
  BY <1>2, SameRows DEF SelectionInv
<1> QED BY <1>2, <1>3, <1>6, <1>7, <1>8, <1>9, <1>10, <1>11, CancelRowsKept, WorkflowKeeps

\* A step that starts again: the freeze, the completion or the failure.
LEMMA ImportRestartsKeeps == ASSUME ImportInv, NEW i \in Imports, ImportRestarts(i) PROVE ImportInv'
<1>1. UNCHANGED <<storeVars, batchRow, child, cancel, halted>>
  BY DEF ImportRestarts
<1>2. CASE /\ iwf[i].pc \in {"mark", "select", "insert", "frozen", "run", "drop"}
           /\ ImportGoto(i, "freeze")
  <2>1. /\ iwf[i].pc \in Early /\ iwf[i].pc \notin {"none", "ended"} /\ "freeze" \in ImportPC
        /\ "freeze" \notin {"frozen", "run"} \cup Loaded
    BY <1>2 DEF ImportPC, Early, Loaded
  <2> QED BY <1>1, <1>2, <2>1, LeavingMoves
<1>3. CASE iwf[i].pc = "failwrite" /\ ImportGoto(i, "fail")
  BY <1>1, <1>3, LeavingMoves DEF ImportPC, Early, Loaded
<1>4. CASE iwf[i].pc = "finish" /\ ImportGoto(i, "complete")
  <2>1. PICK w \in WorkflowRows : /\ iwf' = [iwf EXCEPT ![i] = w] /\ w.pc = "complete"
                                  /\ w.next = iwf[i].next /\ w.total = iwf[i].total
    BY <1>4, GotoRow, ImportRows DEF ImportPC
  <2>2. iwf'[i] = w /\ w.pc \notin Early /\ child' = child
    BY <1>1, <2>1, ImportRows DEF Early
  <2>3. ~Completed(i)' /\ importJob[i].status # "COMPLETED"
    BY <1>1, <1>4, StoreKept, SameRows DEF Completed
  <2>4. LinkedInv(i)'
    <3>1. MayComplete(i)
      BY <1>4 DEF MayComplete
    <3> QED BY <1>1, <2>2, <3>1, StoreKept, SameRows DEF LinkedInv, Linked, InMatter
  <2>5. PlanInv(i)'
    <3>1. iwf[i].pc \in Loaded
      BY <1>4 DEF Loaded
    <3> QED BY <1>1, <2>1, <2>2, <3>1, StoreKept, SameRows, PlanStays
  <2>6. ProgressInv(i)'
    <3>1. /\ \A k \in Batches : child[i][k].pc # "none" <=> k <= BatchCount(iwf[i].total)
          /\ importJob[i].matched = iwf[i].total /\ ~selection[i].row
          /\ \A k \in Batches : child[i][k].pc \in {"none", "done"}
      BY <1>4, SameRows DEF ProgressInv, Loaded
    <3>2. importJob' = importJob /\ selection' = selection
      BY <1>1, StoreKept
    <3> QED BY <2>1, <2>2, <2>3, <3>1, <3>2 DEF ProgressInv
  <2> QED BY <1>1, <1>4, <2>1, <2>2, <2>4, <2>5, <2>6, StoreKept, WorkflowKeeps
<1> QED BY <1>2, <1>3, <1>4 DEF ImportRestarts, ImportAt

\* The next batch is enqueued with its slice of the frozen selection.
LEMMA EnqueueKeeps ==
  ASSUME ImportInv, NEW i \in Imports, iwf[i].pc = "load",
         NEW k, k = iwf[i].next, k <= BatchCount(iwf[i].total), selection[i].row,
         child' = [child EXCEPT ![i][k] =
                      IF @.pc # "none" THEN @
                      ELSE [NoChild EXCEPT !.pc = "queued", !.items = Slice(selection[i].items, k)]],
         iwf' = [iwf EXCEPT ![i].next = k + 1],
         UNCHANGED <<storeVars, batchRow, cancel, halted>>
  PROVE  ImportInv'
<1> DEFINE row == [NoChild EXCEPT !.pc = "queued", !.items = Slice(selection[i].items, k)]
           mine == [child[i] EXCEPT ![k] = row]
           w == [iwf[i] EXCEPT !.next = k + 1]
<1>1. /\ iwf[i] \in WorkflowRows /\ iwf \in [Imports -> WorkflowRows] /\ iwf[i].total \in Nat
      /\ child \in [Imports -> [Batches -> ChildRows]] /\ child[i] \in [Batches -> ChildRows]
      /\ batchRow[i] \in [Batches -> BatchRows] /\ batchRow' = [batchRow EXCEPT ![i] = batchRow[i]]
  BY ImportRows DEF WorkflowRows
<1>2. /\ k \in 1..BatchCount(iwf[i].total) + 1
      /\ \A l \in Batches : child[i][l].pc # "none" <=> l < k
      /\ importJob[i].matched = iwf[i].total
  BY SameRows DEF ProgressInv, Loaded
<1>3. PICK s \in Seq(ItemArtifacts) :
            /\ Unique(s) /\ Len(s) = iwf[i].total
            /\ selection[i].row => selection[i].items = s
            /\ \A l \in Batches : child[i][l].pc # "none" => child[i][l].items = Slice(s, l)
  BY SameRows DEF PlanInv, Loaded
<1>4. k \in Batches /\ k \in Nat /\ MaxBatches \in Nat /\ BatchCount(iwf[i].total) \in Nat
  <2>1. BatchCount(iwf[i].total) <= MaxBatches
    BY <1>3, UniqueSequences
  <2>2. BatchCount(iwf[i].total) \in Nat
    BY <1>1, BatchCounts
  <2> QED BY <1>2, <2>1, <2>2, ImportAssumption DEF Batches
<1>5. child[i][k].pc = "none"
  BY <1>2, <1>4
<1>6. child' = [child EXCEPT ![i] = mine]
  BY <1>1, <1>4, <1>5
<1>7. row \in ChildRows /\ row.pc = "queued" /\ row.items = Slice(s, k)
  <2>1. Slice(selection[i].items, k) = Slice(s, k)
    BY <1>3
  <2>2. Slice(s, k) \subseteq ItemArtifacts
    BY <1>3, <1>4, SlicesPartition
  <2>3. NoChild \in ChildRows
    BY DEF NoChild, ChildRows, ChildPC, ImportCounts, NoCounts
  <2>4. "queued" \in ChildPC
    BY DEF ChildPC
  <2> HIDE DEF Slice
  <2> QED BY <2>1, <2>2, <2>3, <2>4 DEF ChildRows
<1>8. w \in WorkflowRows /\ w.pc = "load" /\ w.next = k + 1 /\ w.total = iwf[i].total
  <2>1. PICK n \in Nat : n = k + 1
    BY <1>4
  <2>2. w = [iwf[i] EXCEPT !.next = n]
    BY <2>1
  <2> HIDE DEF w
  <2>3. w \in WorkflowRows /\ w.pc = iwf[i].pc /\ w.next = n /\ w.total = iwf[i].total
    BY <1>1, <2>2 DEF WorkflowRows
  <2> QED BY <2>1, <2>3
<1>9. iwf' = [iwf EXCEPT ![i] = w]
  BY <1>1
<1> HIDE DEF row, w
<1>10. mine \in [Batches -> ChildRows] /\ mine[k] = row /\ \A l \in Batches : l # k => mine[l] = child[i][l]
  BY <1>1, <1>4, <1>7
<1> HIDE DEF mine
<1>11. child'[i] = mine /\ iwf'[i] = w
  BY <1>1, <1>6, <1>9
<1>12. /\ importJob' = importJob /\ selection' = selection /\ docs' = docs /\ batchRow' = batchRow
  BY StoreKept
<1>13. InMatter(importJob[i].matter)' = InMatter(importJob[i].matter)
  BY <1>12 DEF InMatter
<1>14. ~Completed(i)' /\ importJob[i].status # "COMPLETED"
  BY <1>12, SameRows DEF Completed
<1>15. SelectionInv(i)' /\ RequestInv(i)'
  BY <1>11, <1>12, SameRows DEF SelectionInv, RequestInv
<1>16. BatchInv(i)'
  <2>1. w.pc \notin Early
    BY <1>8 DEF Early
  <2>2. BatchInv(i)
    BY SameRows
  <2>3. batchRow'[i] = batchRow[i]
    BY <1>12
  <2> SUFFICES ASSUME NEW l \in Batches
               PROVE  /\ mine[l].pc = "none" => mine[l].items = {} /\ batchRow[i][l].status = "NONE"
                      /\ mine[l].pc = "commit" =>
                            /\ batchRow[i][l].status = "NONE"
                            /\ mine[l].known \subseteq mine[l].items
                            /\ mine[l].known \subseteq InMatter(importJob[i].matter)
                      /\ mine[l].pc \in {"progress", "write", "done"} =>
                            batchRow[i][l].status = "COMPLETED"
    BY ZenonT(60), <1>11, <1>13, <2>1, <2>3 DEF BatchInv, Agreed
  <2>4. CASE l = k
    BY <1>7, <1>10, <2>4
  <2>5. CASE l # k
    BY <1>10, <2>2, <2>5 DEF BatchInv, Agreed
  <2> QED BY <2>4, <2>5
<1>17. LinkedInv(i)'
  <2> SUFFICES ASSUME MayComplete(i)', NEW l \in Batches, batchRow[i][l].status = "COMPLETED"
               PROVE  Linked(i, l)'
    BY <1>12 DEF LinkedInv
  <2>1. MayComplete(i)
    BY <1>8, <1>11, <1>12, <1>14 DEF MayComplete
  <2>2. Linked(i, l)
    BY <2>1, SameRows DEF LinkedInv
  <2>3. l # k
    BY <1>5, SameRows DEF BatchInv, Agreed
  <2> QED BY <1>10, <1>11, <1>12, <1>13, <2>2, <2>3 DEF Linked
<1>18. PlanInv(i)'
  <2>1. \A l \in Batches : mine[l].pc # "none" => mine[l].items = Slice(s, l)
    BY <1>3, <1>7, <1>10
  <2> QED BY <1>3, <1>8, <1>11, <1>12, <2>1 DEF PlanInv
<1>19. ProgressInv(i)'
  <2>1. \A l \in Batches : mine[l].pc # "none" <=> l < k + 1
    <3> SUFFICES ASSUME NEW l \in Batches
                 PROVE  mine[l].pc # "none" <=> l < k + 1
      OBVIOUS
    <3>1. CASE l = k
      BY <1>4, <1>7, <1>10, <3>1
    <3>2. CASE l # k
      <4>1. l < k <=> l < k + 1
        BY <1>4, <3>2 DEF Batches
      <4> QED BY <1>2, <1>10, <3>2, <4>1
    <3> QED BY <3>1, <3>2
  <2>2. k + 1 \in 1..BatchCount(iwf[i].total) + 1
    BY <1>2, <1>4
  <2> QED BY <1>2, <1>8, <1>11, <1>12, <1>14, <2>1, <2>2 DEF ProgressInv
<1>20. Accounted(i)'
  <2>1. Accounted(i)
    BY SameRows
  <2>2. Count(i, "added")' = Count(i, "added") /\ AddedBy(i)' = AddedBy(i)
    BY <1>12 DEF Count, AddedBy
  <2> QED BY <2>1, <2>2 DEF Accounted
<1>21. PerImport(i)'
  BY <1>15, <1>16, <1>17, <1>18, <1>19, <1>20 DEF PerImport
<1>22. OneDocumentPerItem'
  BY <1>12 DEF ImportInv, OneDocumentPerItem
<1>23. (docs \subseteq Document)' /\ docs \subseteq docs' /\ \A d \in docs' \ docs : d.by = i
  BY <1>12, ImportRows
<1>24. /\ importJob[i] \in JobRows /\ importJob' = [importJob EXCEPT ![i] = importJob[i]]
       /\ selection[i] \in SelectionRows /\ selection' = [selection EXCEPT ![i] = selection[i]]
       /\ (cancel \in [Imports -> CancelRows])' /\ (halted \subseteq Imports)'
  BY StoreKept
<1> QED BY <1>1, <1>6, <1>8, <1>9, <1>10, <1>21, <1>22, <1>23, <1>24, OneImport

\* The batches of the frozen selection are enqueued one after the other.
LEMMA LoadKeeps == ASSUME ImportInv, NEW i \in Imports, Load(i) PROVE ImportInv'
<1>1. iwf[i].pc = "load" /\ UNCHANGED <<storeVars, batchRow, cancel, halted>>
  BY DEF Load, ImportAt
<1>2. CASE ImportGoto(i, "fail") /\ UNCHANGED child
  BY <1>1, <1>2, LeavingMoves DEF ImportPC, Early, Loaded
<1>3. CASE /\ iwf[i].next > BatchCount(iwf[i].total)
           /\ ImportGoto(i, "cleanup")
           /\ UNCHANGED child
  <2>1. PICK w \in WorkflowRows : /\ iwf' = [iwf EXCEPT ![i] = w] /\ w.pc = "cleanup"
                                  /\ w.next = iwf[i].next /\ w.total = iwf[i].total
    BY <1>3, GotoRow, ImportRows DEF ImportPC
  <2>2. iwf'[i] = w /\ w.pc \notin Early /\ child' = child
    BY <1>3, <2>1, ImportRows DEF Early
  <2>3. ~Completed(i)' /\ importJob[i].status # "COMPLETED"
    BY <1>1, StoreKept, SameRows DEF Completed
  <2>4. LinkedInv(i)'
    <3>1. MayComplete(i)' => MayComplete(i)
      BY <1>1, <2>1, <2>2, <2>3, StoreKept DEF MayComplete
    <3> QED BY <1>1, <2>2, <3>1, StoreKept, SameRows DEF LinkedInv, Linked, InMatter
  <2>5. PlanInv(i)'
    <3>1. iwf[i].pc \in Loaded
      BY <1>1 DEF Loaded
    <3> QED BY <1>1, <2>1, <2>2, <3>1, StoreKept, SameRows, PlanStays
  <2>6. ProgressInv(i)'
    <3>1. /\ iwf[i].next \in 1..BatchCount(iwf[i].total) + 1
          /\ \A k \in Batches : child[i][k].pc # "none" <=> k < iwf[i].next
          /\ importJob[i].matched = iwf[i].total
      BY <1>1, SameRows DEF ProgressInv, Loaded
    <3>2. BatchCount(iwf[i].total) \in Nat
      BY ImportRows, BatchCounts DEF WorkflowRows
    <3>3. \A k \in Batches : child[i][k].pc # "none" <=> k <= BatchCount(iwf[i].total)
      <4>1. iwf[i].next = BatchCount(iwf[i].total) + 1
        BY <1>3, <3>1, <3>2
      <4>2. \A k \in Batches : k < BatchCount(iwf[i].total) + 1 <=> k <= BatchCount(iwf[i].total)
        BY <3>2 DEF Batches
      <4> QED BY <3>1, <4>1, <4>2
    <3>4. importJob' = importJob
      BY <1>1, StoreKept
    <3> QED BY <2>1, <2>2, <2>3, <3>1, <3>3, <3>4 DEF ProgressInv
  <2> QED BY <1>1, <2>1, <2>2, <2>4, <2>5, <2>6, StoreKept, WorkflowKeeps
<1>4. CASE /\ iwf[i].next <= BatchCount(iwf[i].total)
           /\ selection[i].row
           /\ child' = [child EXCEPT ![i][iwf[i].next] =
                 IF @.pc # "none" THEN @
                 ELSE [NoChild EXCEPT !.pc = "queued",
                                      !.items = Slice(selection[i].items, iwf[i].next)]]
           /\ iwf' = [iwf EXCEPT ![i].next = iwf[i].next + 1]
  BY <1>1, <1>4, EnqueueKeeps
<1> QED BY <1>2, <1>3, <1>4 DEF Load, Slice

(***************************************************************************)
(* The batches.                                                            *)
(***************************************************************************)

\* Two functions on the batches that differ at most at k.
OnlyAt(k, f, g) == \A l \in Batches : l # k => f[l] = g[l]

\* A step of a batch workflow: a batch is COMPLETED when all its items are linked and counted,
\* or in an import that is canceled.
LEMMA BatchKeeps ==
  ASSUME ImportInv, NEW i \in Imports, NEW k \in Batches,
         NEW mine \in [Batches -> ChildRows], child' = [child EXCEPT ![i] = mine],
         NEW rows \in [Batches -> BatchRows], batchRow' = [batchRow EXCEPT ![i] = rows],
         OnlyAt(k, mine, child[i]), OnlyAt(k, rows, batchRow[i]),
         NEW job \in JobRows, importJob' = [importJob EXCEPT ![i] = job],
         job.status = importJob[i].status, job.matter = importJob[i].matter,
         job.matched = importJob[i].matched,
         iwf' = iwf, selection' = selection, cancel' = cancel, halted' = halted,
         (docs \subseteq Document)', docs \subseteq docs', \A d \in docs' \ docs : d.by = i,
         child[i][k].pc \notin {"none", "done"}, mine[k].pc # "none",
         mine[k].items = child[i][k].items,
         Agreed(i, k)',
         rows[k] = batchRow[i][k] \/ importJob[i].status = "CANCELED" \/ Linked(i, k)',
         Accounted(i)', OneDocumentPerItem'
  PROVE  ImportInv'
<1> PICK c \in ChildRows, b \in BatchRows : c = mine[k] /\ b = rows[k]
  OBVIOUS
<1>1. /\ child \in [Imports -> [Batches -> ChildRows]] /\ batchRow \in [Imports -> [Batches -> BatchRows]]
      /\ importJob \in [Imports -> JobRows]
  BY ImportRows
<1>2. /\ mine[k] = c /\ rows[k] = b
      /\ \A l \in Batches : l # k => mine[l] = child[i][l] /\ rows[l] = batchRow[i][l]
  BY DEF OnlyAt
<1>3. child'[i] = mine /\ batchRow'[i] = rows /\ importJob'[i] = job
  BY <1>1, <1>2
<1>4. /\ RequestInv(i) /\ SelectionInv(i) /\ BatchInv(i) /\ LinkedInv(i) /\ PlanInv(i) /\ ProgressInv(i)
  BY SameRows
<1>5. InMatter(importJob[i].matter) \subseteq InMatter(importJob[i].matter)'
  BY <1>3 DEF InMatter
<1>6. iwf[i].pc \notin Early /\ iwf[i].pc \notin {"complete", "finish"} /\ ~Completed(i)
  <2>1. iwf[i].pc \notin Early
    BY <1>4 DEF BatchInv, Agreed
  <2> QED BY <1>4, <2>1 DEF ProgressInv
<1>7. RequestInv(i)' /\ SelectionInv(i)'
  BY <1>3, <1>4 DEF RequestInv, SelectionInv
<1>8. BatchInv(i)'
  <2> SUFFICES ASSUME NEW l \in Batches
               PROVE  /\ mine[l].pc = "none" => mine[l].items = {} /\ rows[l].status = "NONE"
                      /\ mine[l].pc = "commit" =>
                            /\ rows[l].status = "NONE" /\ mine[l].known \subseteq mine[l].items
                            /\ mine[l].known \subseteq InMatter(importJob[i].matter)'
                      /\ mine[l].pc \in {"progress", "write", "done"} => rows[l].status = "COMPLETED"
    BY <1>3, <1>6 DEF BatchInv, Agreed
  <2>1. CASE l = k
    <3>1. Agreed(i, k)'
      OBVIOUS
    <3> QED BY <1>2, <1>3, <2>1, <3>1 DEF Agreed
  <2>2. CASE l # k
    BY <1>2, <1>4, <1>5, <2>2 DEF BatchInv, Agreed
  <2> QED BY <2>1, <2>2
<1>9. LinkedInv(i)'
  <2>1. MayComplete(i)' => MayComplete(i) /\ importJob[i].status # "CANCELED"
    BY <1>3, <1>6 DEF MayComplete, Completed
  <2> SUFFICES ASSUME MayComplete(i), importJob[i].status # "CANCELED",
                      NEW l \in Batches, rows[l].status = "COMPLETED"
               PROVE  /\ mine[l].items \subseteq InMatter(importJob[i].matter)'
                      /\ rows[l].added + rows[l].duplicate = Cardinality(mine[l].items)
    BY <1>3, <2>1 DEF LinkedInv, Linked
  <2>2. batchRow[i][l].status = "COMPLETED" =>
            /\ child[i][l].items \subseteq InMatter(importJob[i].matter)
            /\ batchRow[i][l].added + batchRow[i][l].duplicate = Cardinality(child[i][l].items)
    BY <1>4 DEF LinkedInv, Linked
  <2>3. CASE l = k /\ b # batchRow[i][k]
    <3>1. Linked(i, k)'
      BY <1>2, <2>3
    <3> QED BY <1>3, <2>3, <3>1 DEF Linked
  <2>4. CASE l = k /\ b = batchRow[i][k]
    BY <1>2, <1>5, <2>2, <2>4
  <2>5. CASE l # k
    BY <1>2, <1>5, <2>2, <2>5
  <2> QED BY <2>3, <2>4, <2>5
<1>10. \A l \in Batches : /\ mine[l].pc # "none" <=> child[i][l].pc # "none"
                          /\ mine[l].items = child[i][l].items
  BY <1>2
<1>11. PlanInv(i)'
  BY <1>3, <1>4, <1>6, <1>10 DEF PlanInv, Completed
<1>12. ProgressInv(i)'
  <2>1. ~Completed(i)'
    BY <1>3, <1>6 DEF Completed
  <2> QED BY <1>3, <1>4, <1>6, <1>10, <2>1 DEF ProgressInv
<1>13. PerImport(i)'
  BY <1>7, <1>8, <1>9, <1>11, <1>12 DEF PerImport
<1>14. /\ iwf[i] \in WorkflowRows /\ iwf' = [iwf EXCEPT ![i] = iwf[i]]
       /\ selection[i] \in SelectionRows /\ selection' = [selection EXCEPT ![i] = selection[i]]
  BY SameRows
<1> QED BY <1>2, <1>13, <1>14, CancelRowsKept, OneImport

\* A step of a batch workflow that writes no batch row and no document.
LEMMA BatchMoves ==
  ASSUME ImportInv, NEW i \in Imports, NEW k \in Batches,
         NEW c \in ChildRows, child' = [child EXCEPT ![i] = [child[i] EXCEPT ![k] = c]],
         NEW job \in JobRows, importJob' = [importJob EXCEPT ![i] = job],
         job.status = importJob[i].status, job.matter = importJob[i].matter,
         job.matched = importJob[i].matched,
         iwf' = iwf, selection' = selection, cancel' = cancel, halted' = halted,
         docs' = docs, batchRow' = batchRow,
         child[i][k].pc \notin {"none", "done"}, c.pc # "none", c.items = child[i][k].items,
         c.pc = "commit" => /\ batchRow[i][k].status = "NONE" /\ c.known \subseteq c.items
                            /\ c.known \subseteq InMatter(importJob[i].matter),
         c.pc \in {"progress", "write", "done"} => batchRow[i][k].status = "COMPLETED"
  PROVE  ImportInv'
<1> DEFINE mine == [child[i] EXCEPT ![k] = c]
<1>1. /\ mine \in [Batches -> ChildRows] /\ child' = [child EXCEPT ![i] = mine] /\ mine[k] = c
      /\ batchRow[i] \in [Batches -> BatchRows] /\ batchRow' = [batchRow EXCEPT ![i] = batchRow[i]]
      /\ OnlyAt(k, mine, child[i])
  BY ImportRows DEF OnlyAt
<1> HIDE DEF mine
<1>2. Accounted(i)'
  <2>1. Accounted(i)
    BY SameRows
  <2>2. Count(i, "added")' = Count(i, "added") /\ AddedBy(i)' = AddedBy(i)
    BY DEF Count, AddedBy
  <2> QED BY <2>1, <2>2 DEF Accounted
<1>3. OneDocumentPerItem'
  BY DEF ImportInv, OneDocumentPerItem
<1>4. (docs \subseteq Document)' /\ docs \subseteq docs' /\ \A d \in docs' \ docs : d.by = i
  BY ImportRows
<1>5. PICK rows \in [Batches -> BatchRows] : rows = batchRow[i]
  BY <1>1
<1>6. /\ mine[k].pc # "none" /\ mine[k].items = child[i][k].items
      /\ rows[k] = batchRow[i][k] \/ importJob[i].status = "CANCELED" \/ Linked(i, k)'
  BY <1>1, <1>5
<1>7. Agreed(i, k)'
  <2>1. child'[i][k] = c /\ batchRow'[i][k] = batchRow[i][k]
    BY <1>1, ImportRows
  <2>2. InMatter(importJob[i].matter)' = InMatter(importJob[i].matter)
    <3>1. importJob'[i].matter = importJob[i].matter
      BY ImportRows
    <3> QED BY <3>1 DEF InMatter
  <2> QED BY <2>1, <2>2 DEF Agreed
<1>8. /\ batchRow' = [batchRow EXCEPT ![i] = rows]
      /\ OnlyAt(k, rows, batchRow[i])
  BY <1>1, <1>5 DEF OnlyAt
<1> QED BY <1>1, <1>2, <1>3, <1>4, <1>6, <1>7, <1>8, BatchKeeps

\* A move of a batch workflow alone.
LEMMA BatchGoes ==
  ASSUME ImportInv, NEW i \in Imports, NEW k \in Batches, NEW pc \in ChildPC,
         child' = [child EXCEPT ![i][k].pc = pc],
         UNCHANGED <<storeVars, batchRow, iwf, cancel, halted>>,
         child[i][k].pc \notin {"none", "done"}, pc \notin {"none", "commit"},
         pc \in {"progress", "write", "done"} => batchRow[i][k].status = "COMPLETED"
  PROVE  ImportInv'
<1> DEFINE c == [child[i][k] EXCEPT !.pc = pc]
<1>1. /\ child' = [child EXCEPT ![i] = [child[i] EXCEPT ![k] = c]]
      /\ c \in ChildRows /\ c.pc = pc /\ c.items = child[i][k].items
  <2>1. child[i][k] \in ChildRows /\ child \in [Imports -> [Batches -> ChildRows]]
    BY ImportRows
  <2>2. c \in ChildRows /\ c.pc = pc /\ c.items = child[i][k].items
    BY <2>1 DEF ChildRows
  <2>3. child' = [child EXCEPT ![i] = [child[i] EXCEPT ![k] = c]]
    BY <2>1
  <2> QED BY <2>2, <2>3
<1> HIDE DEF c
<1>2. /\ importJob[i] \in JobRows /\ importJob' = [importJob EXCEPT ![i] = importJob[i]]
      /\ selection' = selection /\ docs' = docs /\ batchRow' = batchRow
      /\ iwf' = iwf /\ cancel' = cancel /\ halted' = halted
  BY StoreKept DEF storeVars
<1>3. /\ c.pc # "none" /\ c.pc # "commit"
      /\ c.pc \in {"progress", "write", "done"} => batchRow[i][k].status = "COMPLETED"
  BY <1>1
<1> QED BY <1>1, <1>2, <1>3, BatchMoves

\* The batch stops, fails or starts again.
LEMMA ChildHaltsKeeps ==
  ASSUME ImportInv, NEW i \in Imports, NEW k \in Batches, ChildHalts(i, k)
  PROVE  ImportInv'
<1>1. /\ child[i][k].pc = "queued" /\ child' = [child EXCEPT ![i][k].pc = "halted"]
      /\ UNCHANGED <<storeVars, batchRow, iwf, cancel, halted>>
  BY DEF ChildHalts, ChildAt
<1> QED BY <1>1, BatchGoes DEF ChildPC

\* See ChildHaltsKeeps.
LEMMA ChildRestartsKeeps ==
  ASSUME ImportInv, NEW i \in Imports, NEW k \in Batches, ChildRestarts(i, k)
  PROVE  ImportInv'
<1>1. /\ child[i][k].pc \notin {"none", "done"} /\ child' = [child EXCEPT ![i][k].pc = "queued"]
      /\ UNCHANGED <<storeVars, batchRow, iwf, cancel, halted>>
  BY DEF ChildRestarts
<1> QED BY <1>1, BatchGoes DEF ChildPC

\* See ChildHaltsKeeps.
LEMMA ChildGivesUpKeeps ==
  ASSUME ImportInv, NEW i \in Imports, NEW k \in Batches, ChildGivesUp(i, k)
  PROVE  ImportInv'
<1>1. /\ child[i][k].pc \notin {"none", "done"} /\ child' = [child EXCEPT ![i][k].pc = "error"]
      /\ UNCHANGED <<storeVars, batchRow, iwf, cancel, halted>>
  BY DEF ChildGivesUp
<1> QED BY <1>1, BatchGoes DEF ChildPC

\* The batch reads the documents that the matter has.
LEMMA ChildReadKeeps ==
  ASSUME ImportInv, NEW i \in Imports, NEW k \in Batches, ChildRead(i, k)
  PROVE  ImportInv'
<1>1. /\ child[i][k] \in ChildRows /\ child \in [Imports -> [Batches -> ChildRows]]
      /\ batchRow[i][k] \in BatchRows
  BY ImportRows
<1>2. PICK pc, known : /\ pc = IF child[i][k].items \cap Unimportable = {} THEN "commit" ELSE "error"
                       /\ known = child[i][k].items \cap InMatter(importJob[i].matter)
  OBVIOUS
<1> DEFINE c == [child[i][k] EXCEPT !.pc = pc, !.known = known]
<1>3. /\ pc \in {"commit", "error"} /\ pc \in ChildPC /\ known \in SUBSET ItemArtifacts
  BY <1>1, <1>2 DEF ChildPC, ChildRows
<1>4. c \in ChildRows /\ c.pc = pc /\ c.items = child[i][k].items /\ c.known = known
  BY <1>1, <1>3 DEF ChildRows
<1>5. child' = [child EXCEPT ![i] = [child[i] EXCEPT ![k] = c]]
  <2>1. child' = [child EXCEPT ![i][k].pc = pc, ![i][k].known = known]
    BY <1>2 DEF ChildRead
  <2> QED BY <1>1, <2>1
<1> HIDE DEF c
<1>6. /\ child[i][k].pc = "queued" /\ batchRow[i][k].status # "COMPLETED"
      /\ UNCHANGED <<storeVars, batchRow, iwf, cancel, halted>>
  BY DEF ChildRead, ChildAt
<1>7. /\ importJob[i] \in JobRows /\ importJob' = [importJob EXCEPT ![i] = importJob[i]]
      /\ selection' = selection /\ docs' = docs /\ batchRow' = batchRow
      /\ iwf' = iwf /\ cancel' = cancel /\ halted' = halted
  BY <1>6, StoreKept DEF storeVars
<1>8. /\ c.pc = "commit" => /\ batchRow[i][k].status = "NONE" /\ c.known \subseteq c.items
                            /\ c.known \subseteq InMatter(importJob[i].matter)
      /\ c.pc \notin {"none", "progress", "write", "done"}
  BY <1>1, <1>2, <1>3, <1>4, <1>6 DEF BatchRows
<1> QED BY <1>4, <1>5, <1>6, <1>7, <1>8, BatchMoves

\* The counts of the batches are read, and written into the job.
LEMMA ProgressReadKeeps ==
  ASSUME ImportInv, NEW i \in Imports, NEW k \in Batches, ProgressRead(i, k)
  PROVE  ImportInv'
<1>1. /\ child[i][k] \in ChildRows /\ child \in [Imports -> [Batches -> ChildRows]]
      /\ batchRow \in [Imports -> [Batches -> BatchRows]] /\ importJob[i].counts \in ImportCounts
  BY ImportRows DEF JobRows
<1>2. /\ child[i][k].pc = "progress" /\ UNCHANGED <<storeVars, batchRow, iwf, cancel, halted>>
  BY DEF ProgressRead, ChildAt
<1>3. batchRow[i][k].status = "COMPLETED"
  BY <1>2, SameRows DEF BatchInv, Agreed
<1>4. CASE importJob[i].status = "CANCELED"
  <2>1. child' = [child EXCEPT ![i][k].pc = "done"]
    BY <1>4 DEF ProgressRead
  <2> QED BY <1>2, <1>3, <2>1, BatchGoes DEF ChildPC
<1>5. CASE importJob[i].status # "CANCELED"
  <2>1. BatchTotals(i) \in ImportCounts
    BY <1>1, CountType DEF BatchTotals, ImportCounts
  <2>2. PICK totals \in ImportCounts, seen \in ImportCounts :
                totals = BatchTotals(i) /\ seen = importJob[i].counts
    BY <1>1, <2>1
  <2> DEFINE c == [child[i][k] EXCEPT !.pc = "write", !.seen = seen, !.totals = totals]
  <2>3. c \in ChildRows /\ c.pc = "write" /\ c.items = child[i][k].items
    BY <1>1 DEF ChildRows, ChildPC
  <2>4. child' = [child EXCEPT ![i] = [child[i] EXCEPT ![k] = c]]
    <3>1. child' = [child EXCEPT ![i][k].pc = "write", ![i][k].seen = seen, ![i][k].totals = totals]
      BY <1>5, <2>2 DEF ProgressRead
    <3> QED BY <1>1, <3>1
  <2> HIDE DEF c
  <2>5. /\ importJob[i] \in JobRows /\ importJob' = [importJob EXCEPT ![i] = importJob[i]]
        /\ selection' = selection /\ docs' = docs /\ batchRow' = batchRow
        /\ iwf' = iwf /\ cancel' = cancel /\ halted' = halted
    BY <1>2, StoreKept DEF storeVars
  <2> QED BY <1>2, <1>3, <2>3, <2>4, <2>5, BatchMoves
<1> QED BY <1>4, <1>5

\* See ProgressReadKeeps.
LEMMA ProgressWriteKeeps ==
  ASSUME ImportInv, NEW i \in Imports, NEW k \in Batches, ProgressWrite(i, k)
  PROVE  ImportInv'
<1>1. /\ child[i][k] \in ChildRows /\ child \in [Imports -> [Batches -> ChildRows]]
      /\ importJob[i] \in JobRows /\ importJob \in [Imports -> JobRows]
  BY ImportRows
<1>2. /\ child[i][k].pc = "write" /\ UNCHANGED <<selection, docs, batchRow, iwf, cancel, halted>>
  BY DEF ProgressWrite, ChildAt
<1>3. batchRow[i][k].status = "COMPLETED"
  BY <1>2, SameRows DEF BatchInv, Agreed
<1> DEFINE counts == Merged(i, child[i][k].seen, child[i][k].totals)
           job == [importJob[i] EXCEPT !.counts = counts]
           c == [child[i][k] EXCEPT !.pc = "done", !.seen = NoCounts, !.totals = NoCounts]
<1>4. counts \in ImportCounts
  <2>1. importJob[i].counts \in ImportCounts /\ child[i][k].totals \in ImportCounts
    BY <1>1 DEF JobRows, ChildRows
  <2>2. PICK g : g = [f \in {"processed", "added", "duplicate"} |->
                         IF child[i][k].seen[f] = child[i][k].totals[f]
                         THEN importJob[i].counts[f] ELSE child[i][k].totals[f]]
    OBVIOUS
  <2>3. g = [processed |-> g.processed, added |-> g.added, duplicate |-> g.duplicate]
    BY <2>2
  <2>4. g.processed \in Nat /\ g.added \in Nat /\ g.duplicate \in Nat
    BY <2>1, <2>2 DEF ImportCounts
  <2>5. g \in ImportCounts
    BY <2>3, <2>4 DEF ImportCounts
  <2> QED BY <2>2, <2>5 DEF Merged
<1>5. importJob' = [importJob EXCEPT ![i] = job]
  BY <1>1 DEF ProgressWrite
<1> HIDE DEF counts
<1>6. /\ job \in JobRows /\ job.status = importJob[i].status /\ job.matter = importJob[i].matter
      /\ job.matched = importJob[i].matched
  BY <1>1, <1>4 DEF JobRows
<1>7. c \in ChildRows /\ c.pc = "done" /\ c.items = child[i][k].items
  BY <1>1 DEF ChildRows, ChildPC, NoCounts, ImportCounts
<1>8. child' = [child EXCEPT ![i] = [child[i] EXCEPT ![k] = c]]
  BY <1>1 DEF ProgressWrite
<1> HIDE DEF job, c
<1> QED BY <1>2, <1>3, <1>5, <1>6, <1>7, <1>8, BatchMoves

\* A batch that becomes COMPLETED adds what it added to the count of its import.
LEMMA CountGrows ==
  ASSUME ImportInv, NEW i \in Imports, NEW k \in Batches,
         NEW rows \in [Batches -> BatchRows], batchRow' = [batchRow EXCEPT ![i] = rows],
         OnlyAt(k, rows, batchRow[i]), batchRow[i][k].status = "NONE", rows[k].status = "COMPLETED"
  PROVE  Count(i, "added")' = Count(i, "added") + rows[k].added
<1> DEFINE f == [l \in Batches |->
                   IF batchRow[i][l].status = "COMPLETED" THEN batchRow[i][l]["added"] ELSE 0]
           g == [l \in Batches |-> IF rows[l].status = "COMPLETED" THEN rows[l]["added"] ELSE 0]
<1>1. batchRow \in [Imports -> [Batches -> BatchRows]] /\ batchRow'[i] = rows /\ MaxBatches \in Nat
  BY ImportRows, ImportAssumption
<1>2. f \in [1..MaxBatches -> Nat] /\ g \in [1..MaxBatches -> Nat]
  BY <1>1 DEF Batches, BatchRows
<1>3. rows[k].added \in Nat /\ g[k] = f[k] + rows[k].added
  BY <1>1 DEF BatchRows
<1>4. \A l \in 1..MaxBatches : l # k => g[l] = f[l]
  BY DEF OnlyAt, Batches
<1>5. Count(i, "added") = SumTo(f, MaxBatches) /\ Count(i, "added")' = SumTo(g, MaxBatches)
  BY <1>1 DEF Count
<1> HIDE DEF f, g
<1>6. k \in 1..MaxBatches
  BY DEF Batches
<1>7. SumTo(g, MaxBatches) = SumTo(f, MaxBatches) + rows[k].added
  BY <1>1, <1>2, <1>3, <1>4, <1>6, SumGrows
<1> QED BY <1>5, <1>7

\* A batch of an import that is canceled counts its items and adds none.
LEMMA ChildSkipsKeeps ==
  ASSUME ImportInv, NEW i \in Imports, NEW k \in Batches, ChildSkips(i, k)
  PROVE  ImportInv'
<1>1. /\ child[i][k] \in ChildRows /\ child \in [Imports -> [Batches -> ChildRows]]
      /\ batchRow \in [Imports -> [Batches -> BatchRows]] /\ batchRow[i][k] \in BatchRows
  BY ImportRows
<1>2. /\ child[i][k].pc = "queued" /\ child' = [child EXCEPT ![i][k].pc = "done"]
      /\ UNCHANGED <<storeVars, iwf, cancel, halted>>
  BY DEF ChildSkips, ChildAt
<1>3. CASE batchRow[i][k].status = "COMPLETED" /\ UNCHANGED batchRow
  BY <1>2, <1>3, BatchGoes DEF ChildPC
<1>4. CASE /\ batchRow[i][k].status # "COMPLETED" /\ importJob[i].status = "CANCELED"
           /\ batchRow' = [batchRow EXCEPT ![i][k] =
                [NoBatch EXCEPT !.status = "COMPLETED", !.items = Cardinality(child[i][k].items)]]
  <2> DEFINE c == [child[i][k] EXCEPT !.pc = "done"]
             mine == [child[i] EXCEPT ![k] = c]
  <2>1. PICK n \in Nat : n = Cardinality(child[i][k].items)
    <3>1. IsFiniteSet(ItemArtifacts) /\ child[i][k].items \subseteq ItemArtifacts
      BY <1>1, StoreAssumption, FS_Subset DEF ChildRows
    <3> QED BY <3>1, FS_Subset, FS_CardinalityType
  <2> DEFINE b == [NoBatch EXCEPT !.status = "COMPLETED", !.items = n]
             rows == [batchRow[i] EXCEPT ![k] = b]
  <2>2. c \in ChildRows /\ c.pc = "done" /\ c.items = child[i][k].items
    BY <1>1 DEF ChildRows, ChildPC
  <2>3. b \in BatchRows /\ b.status = "COMPLETED" /\ b.added = 0
    BY DEF BatchRows, NoBatch
  <2>4. child' = [child EXCEPT ![i] = mine]
    BY <1>1, <1>2
  <2>5. batchRow' = [batchRow EXCEPT ![i] = rows]
    BY <1>1, <1>4, <2>1
  <2> HIDE DEF c, b
  <2>6. mine \in [Batches -> ChildRows] /\ mine[k] = c /\ OnlyAt(k, mine, child[i])
    BY <1>1, <2>2 DEF OnlyAt
  <2>7. rows \in [Batches -> BatchRows] /\ rows[k] = b /\ OnlyAt(k, rows, batchRow[i])
    BY <1>1, <2>3 DEF OnlyAt
  <2> HIDE DEF mine, rows
  <2>8. Accounted(i)'
    <3>1. Accounted(i) /\ AddedBy(i)' = AddedBy(i)
      BY <1>2, SameRows DEF AddedBy, storeVars
    <3>2. batchRow[i][k].status = "NONE"
      BY <1>1, <1>4 DEF BatchRows
    <3>3. Count(i, "added")' = Count(i, "added") + 0
      BY <2>3, <2>5, <2>7, <3>2, CountGrows
    <3>4. Count(i, "added") \in Nat
      BY <1>1, CountType
    <3> QED BY <3>1, <3>3, <3>4 DEF Accounted
  <2>9. /\ importJob[i] \in JobRows /\ importJob' = [importJob EXCEPT ![i] = importJob[i]]
        /\ selection' = selection /\ docs' = docs
        /\ iwf' = iwf /\ cancel' = cancel /\ halted' = halted
    BY <1>2, SameRows DEF storeVars
  <2>10. OneDocumentPerItem'
    BY <2>9 DEF ImportInv, OneDocumentPerItem
  <2>11. (docs \subseteq Document)' /\ docs \subseteq docs' /\ \A d \in docs' \ docs : d.by = i
    BY <2>9, ImportRows
  <2>12. Agreed(i, k)'
    <3>1. child'[i][k] = c /\ batchRow'[i][k] = b
      BY <1>1, <2>4, <2>5, <2>6, <2>7
    <3> QED BY <2>2, <2>3, <3>1 DEF Agreed
  <2>13. child[i][k].pc \notin {"none", "done"} /\ mine[k].pc # "none"
         /\ mine[k].items = child[i][k].items
    BY <1>2, <2>2, <2>6
  <2>14. rows[k] = batchRow[i][k] \/ importJob[i].status = "CANCELED" \/ Linked(i, k)'
    BY <1>4
  <2> QED BY <2>4, <2>5, <2>6, <2>7, <2>8, <2>9, <2>10, <2>11, <2>12, <2>13, <2>14, BatchKeeps
<1> QED BY <1>3, <1>4 DEF ChildSkips

\* The items of a batch, those that were known and those that are new.
LEMMA BatchSizes ==
  ASSUME NEW items \in SUBSET ItemArtifacts, NEW known \in SUBSET items
  PROVE  /\ IsFiniteSet(items \ known)
         /\ Cardinality(items) \in Nat /\ Cardinality(known) \in Nat
         /\ Cardinality(items \ known) \in Nat
         /\ Cardinality(items \ known) + Cardinality(known) = Cardinality(items)
<1>1. IsFiniteSet(items)
  <2>1. IsFiniteSet(ItemArtifacts)
    BY StoreAssumption, FS_Subset
  <2> QED BY <2>1, FS_Subset
<1>2. IsFiniteSet(items \ known) /\ IsFiniteSet(known)
  <2>1. items \ known \subseteq items
    OBVIOUS
  <2> QED BY <1>1, <2>1, FS_Subset
<1>3. Cardinality(items \ known) = Cardinality(items) - Cardinality(items \cap known)
  BY <1>1, FS_Difference
<1>4. items \cap known = known
  OBVIOUS
<1>5. /\ Cardinality(items) \in Nat /\ Cardinality(known) \in Nat
      /\ Cardinality(items \ known) \in Nat
  BY <1>1, <1>2, FS_CardinalityType
<1> QED BY <1>2, <1>3, <1>4, <1>5

\* The documents that import i makes of the items of S.
DocumentsOf(m, i, S) == {[matter |-> m, item |-> a, by |-> i] : a \in S}

\* An import makes one document of each item.
LEMMA OneForEach ==
  ASSUME NEW m, NEW i, NEW S, IsFiniteSet(S),
         NEW N, N = DocumentsOf(m, i, S)
  PROVE  IsFiniteSet(N) /\ Cardinality(N) = Cardinality(S)
<1> DEFINE doc(a) == [matter |-> m, item |-> a, by |-> i]
           f == [a \in S |-> doc(a)]
<1>1. \A a, b \in S : doc(a) = doc(b) => a = b
  <2> SUFFICES ASSUME NEW a \in S, NEW b \in S, doc(a) = doc(b)
               PROVE  a = b
    OBVIOUS
  <2>1. doc(a).item = a /\ doc(b).item = b
    OBVIOUS
  <2> QED BY <2>1
<1>0. N = {doc(a) : a \in S}
  BY DEF DocumentsOf
<1> HIDE DEF doc
<1>2. f \in Bijection(S, N)
  <2>1. f \in [S -> N] /\ \A d \in N : \E a \in S : f[a] = d
    BY <1>0
  <2>2. f \in Surjection(S, N)
    BY <2>1 DEF Surjection
  <2>3. f \in Injection(S, N)
    BY <1>1, <2>1 DEF Injection, IsInjective
  <2> QED BY <2>2, <2>3 DEF Bijection
<1>3. ExistsBijection(S, N)
  BY <1>2 DEF ExistsBijection
<1> QED BY <1>3, FS_Bijection

\* The documents of the new items are inserted with the row of the batch.
LEMMA InsertKeeps ==
  ASSUME ImportInv, NEW i \in Imports, NEW k \in Batches, child[i][k].pc = "commit",
         NEW new, new = child[i][k].items \ child[i][k].known,
         new \cap InMatter(importJob[i].matter) = {},
         docs' = docs \cup {[matter |-> importJob[i].matter, item |-> a, by |-> i] : a \in new},
         batchRow' = [batchRow EXCEPT ![i][k] =
            [status |-> "COMPLETED", items |-> Cardinality(child[i][k].items),
             added |-> Cardinality(new), duplicate |-> Cardinality(child[i][k].known)]],
         child' = [child EXCEPT ![i][k].pc = "progress"],
         UNCHANGED <<selection, importJob, iwf, cancel, halted>>
  PROVE  ImportInv'
<1>1. /\ child[i][k] \in ChildRows /\ child \in [Imports -> [Batches -> ChildRows]]
      /\ batchRow \in [Imports -> [Batches -> BatchRows]] /\ docs \subseteq Document
      /\ importJob \in [Imports -> JobRows] /\ importJob[i] \in JobRows
  BY ImportRows
<1>2. /\ batchRow[i][k].status = "NONE" /\ child[i][k].known \subseteq child[i][k].items
      /\ child[i][k].known \subseteq InMatter(importJob[i].matter)
      /\ child[i][k].items \subseteq ItemArtifacts
  BY <1>1, SameRows DEF BatchInv, Agreed, ChildRows
<1>3. PICK items \in SUBSET ItemArtifacts, known \in SUBSET ItemArtifacts, m \in Matters :
            /\ known \subseteq items /\ items = child[i][k].items /\ known = child[i][k].known /\ m = importJob[i].matter
  <2>1. iwf[i].pc \notin Early
    BY SameRows DEF BatchInv
  <2>2. importJob[i].matter \in Matters
    BY <2>1, SameRows DEF RequestInv, Early
  <2> QED BY <1>2, <2>2
<1>4. /\ new = items \ known /\ IsFiniteSet(new) /\ Cardinality(items) \in Nat
      /\ Cardinality(known) \in Nat /\ Cardinality(new) \in Nat
      /\ Cardinality(new) + Cardinality(known) = Cardinality(items)
  BY <1>3, BatchSizes
<1> DEFINE N == {[matter |-> m, item |-> a, by |-> i] : a \in new}
           c == [child[i][k] EXCEPT !.pc = "progress"]
           b == [status |-> "COMPLETED", items |-> Cardinality(items),
                 added |-> Cardinality(new), duplicate |-> Cardinality(known)]
           mine == [child[i] EXCEPT ![k] = c]
           rows == [batchRow[i] EXCEPT ![k] = b]
<1>5. c \in ChildRows /\ c.pc = "progress" /\ c.items = items /\ c.known = known
  BY <1>1, <1>3 DEF ChildRows, ChildPC
<1>6. /\ b \in BatchRows /\ b.status = "COMPLETED" /\ b.added = Cardinality(new)
      /\ b.added + b.duplicate = Cardinality(items)
  BY <1>4 DEF BatchRows
<1>7. child' = [child EXCEPT ![i] = mine]
  BY <1>1
<1>8. batchRow' = [batchRow EXCEPT ![i] = rows]
  BY <1>1, <1>3
<1> HIDE DEF c, b
<1>9. mine \in [Batches -> ChildRows] /\ mine[k] = c /\ OnlyAt(k, mine, child[i])
  BY <1>1, <1>5 DEF OnlyAt
<1>10. rows \in [Batches -> BatchRows] /\ rows[k] = b /\ OnlyAt(k, rows, batchRow[i])
  BY <1>1, <1>6 DEF OnlyAt
<1> HIDE DEF mine, rows
<1>11. /\ child'[i][k] = c /\ batchRow'[i][k] = b /\ importJob'[i].matter = m
  BY <1>1, <1>3, <1>7, <1>8, <1>9, <1>10
<1>12. docs' = docs \cup N
  BY <1>3
<1>13. \A d \in N : d \in Document /\ d.by = i /\ d.matter = m /\ d.item \in new
  BY <1>3, <1>4 DEF Document
<1>14. IsFiniteSet(N) /\ Cardinality(N) = Cardinality(new)
  <2>1. N = DocumentsOf(m, i, new)
    BY DEF DocumentsOf
  <2> HIDE DEF N
  <2>2. IsFiniteSet(new)
    BY <1>4
  <2>3. IsFiniteSet(DocumentsOf(m, i, new)) /\ Cardinality(DocumentsOf(m, i, new)) = Cardinality(new)
    BY <2>2, OneForEach
  <2> QED BY <2>1, <2>3
<1>15. \A a \in new : \E d \in N : d.matter = m /\ d.item = a
  <2> SUFFICES ASSUME NEW a \in new
               PROVE  \E d \in N : d.matter = m /\ d.item = a
    OBVIOUS
  <2>1. [matter |-> m, item |-> a, by |-> i] \in N
    OBVIOUS
  <2> QED BY <2>1
<1> HIDE DEF N
<1>16. \A d \in docs : d.matter = m => d.item \notin new
  BY <1>3 DEF InMatter
<1>17. (docs \subseteq Document)' /\ docs \subseteq docs' /\ \A d \in docs' \ docs : d.by = i
  BY <1>1, <1>12, <1>13
<1>18. OneDocumentPerItem'
  <2> SUFFICES ASSUME NEW d \in docs', NEW e \in docs', d.matter = e.matter, d.item = e.item
               PROVE  d = e
    BY DEF OneDocumentPerItem
  <2>1. CASE d \in docs /\ e \in docs
    BY <2>1 DEF ImportInv, OneDocumentPerItem
  <2>2. CASE d \in N /\ e \in N
    <3>1. PICK x \in new : d = [matter |-> m, item |-> x, by |-> i]
      BY <2>2 DEF N
    <3>2. PICK y \in new : e = [matter |-> m, item |-> y, by |-> i]
      BY <2>2 DEF N
    <3> QED BY <3>1, <3>2
  <2>3. CASE d \in docs /\ e \in N
    BY <1>13, <1>16, <2>3
  <2>4. CASE d \in N /\ e \in docs
    BY <1>13, <1>16, <2>4
  <2> QED BY <1>12, <2>1, <2>2, <2>3, <2>4
<1>19. Accounted(i)'
  <2>1. IsFiniteSet(AddedBy(i)) /\ Count(i, "added") = Cardinality(AddedBy(i))
    BY SameRows DEF Accounted
  <2>2. AddedBy(i)' = AddedBy(i) \cup N
    BY <1>12, <1>13 DEF AddedBy
  <2>3. AddedBy(i) \cap N = {}
    BY <1>13, <1>16 DEF AddedBy
  <2> PICK A : A = AddedBy(i)
    OBVIOUS
  <2>4. /\ IsFiniteSet(A \cup N)
        /\ Cardinality(A \cup N) = Cardinality(A) + Cardinality(N) - Cardinality(A \cap N)
    BY <1>14, <2>1, FS_Union
  <2>5. Cardinality(A \cap N) = 0 /\ Cardinality(A) \in Nat /\ Cardinality(N) \in Nat
    BY <1>14, <2>1, <2>3, FS_EmptySet, FS_CardinalityType
  <2>6. Count(i, "added")' = Count(i, "added") + Cardinality(new)
    <3>1. Count(i, "added")' = Count(i, "added") + rows[k].added
      BY <1>2, <1>6, <1>8, <1>10, CountGrows
    <3>2. rows[k].added = Cardinality(new)
      BY <1>6, <1>10
    <3> QED BY <3>1, <3>2
  <2> QED BY <1>14, <2>1, <2>2, <2>4, <2>5, <2>6 DEF Accounted
<1>20. Linked(i, k)'
  <2>1. items \subseteq InMatter(m)'
    <3> SUFFICES ASSUME NEW a \in items
                 PROVE  \E d \in docs' : d.matter = m /\ d.item = a
      BY DEF InMatter
    <3>1. CASE a \in new
      BY <1>12, <1>15, <3>1
    <3>2. CASE a \notin new
      <4>1. a \in InMatter(m)
        BY <1>2, <1>3, <1>4, <3>2
      <4> QED BY <1>12, <4>1 DEF InMatter
    <3> QED BY <3>1, <3>2
  <2> QED BY <1>5, <1>6, <1>11, <2>1 DEF Linked
<1>21. Agreed(i, k)'
  BY <1>5, <1>6, <1>11 DEF Agreed
<1>22. /\ importJob' = [importJob EXCEPT ![i] = importJob[i]]
       /\ selection' = selection /\ iwf' = iwf /\ cancel' = cancel /\ halted' = halted
  BY SameRows
<1>23. /\ child[i][k].pc \notin {"none", "done"} /\ mine[k].pc # "none"
       /\ mine[k].items = child[i][k].items
       /\ rows[k] = batchRow[i][k] \/ importJob[i].status = "CANCELED" \/ Linked(i, k)'
  BY <1>3, <1>5, <1>9, <1>20
<1> QED BY <1>1, <1>7, <1>8, <1>9, <1>10, <1>17, <1>18, <1>19, <1>21, <1>22, <1>23, BatchKeeps

\* A batch commits, or finds that another import was faster.
LEMMA ChildCommitKeeps ==
  ASSUME ImportInv, NEW i \in Imports, NEW k \in Batches, ChildCommit(i, k)
  PROVE  ImportInv'
<1>1. PICK new : new = child[i][k].items \ child[i][k].known
  OBVIOUS
<1>2. /\ child[i][k].pc = "commit"
      /\ UNCHANGED <<collection, artifact, selection, importJob, iwf, cancel, halted>>
  BY DEF ChildCommit, ChildAt
<1>3. CASE new \cap InMatter(importJob[i].matter) # {}
  <2>1. child' = [child EXCEPT ![i][k].pc = "queued"] /\ UNCHANGED <<docs, batchRow>>
    BY <1>1, <1>3 DEF ChildCommit
  <2> QED BY <1>2, <2>1, BatchGoes DEF ChildPC, storeVars
<1>4. CASE new \cap InMatter(importJob[i].matter) = {}
  <2>1. /\ docs' = docs \cup {[matter |-> importJob[i].matter, item |-> a, by |-> i] : a \in new}
        /\ batchRow' = [batchRow EXCEPT ![i][k] =
              [status |-> "COMPLETED", items |-> Cardinality(child[i][k].items),
               added |-> Cardinality(new), duplicate |-> Cardinality(child[i][k].known)]]
        /\ child' = [child EXCEPT ![i][k].pc = "progress"]
    BY <1>1, <1>4 DEF ChildCommit
  <2> QED BY <1>1, <1>2, <1>4, <2>1, InsertKeeps
<1> QED BY <1>3, <1>4

(***************************************************************************)
(* The cancel requests, and every step.                                    *)
(***************************************************************************)

\* A step that changes a cancel request or the halted workflows alone, or nothing.
LEMMA NothingMoves ==
  ASSUME ImportInv, UNCHANGED <<storeVars, batchRow, iwf, child>>,
         (cancel \in [Imports -> CancelRows])', (halted \subseteq Imports)'
  PROVE  ImportInv'
<1>1. /\ importJob' = importJob /\ selection' = selection /\ docs' = docs
      /\ batchRow' = batchRow /\ iwf' = iwf /\ child' = child
  BY DEF storeVars
<1>2. ImportTypeOK' /\ selection' \in [Imports -> SelectionRows]
  BY <1>1, ImportRows, TypesKept
<1>3. OneDocumentPerItem'
  BY <1>1 DEF ImportInv, OneDocumentPerItem
<1>4. \A j \in Imports : PerImport(j)'
  <2> SUFFICES ASSUME NEW j \in Imports
               PROVE  PerImport(j)'
    OBVIOUS
  <2>1. /\ PerImport(j) /\ docs \subseteq docs' /\ \A d \in docs' \ docs : d.by # j
        /\ importJob'[j] = importJob[j] /\ iwf'[j] = iwf[j] /\ selection'[j] = selection[j]
        /\ batchRow'[j] = batchRow[j] /\ child'[j] = child[j]
    BY <1>1, ImportRows
  <2> QED BY <2>1, OthersKeep
<1> QED BY <1>2, <1>3, <1>4 DEF ImportInv

\* See NothingMoves.
LEMMA CancelReadKeeps == ASSUME ImportInv, NEW i \in Imports, CancelRead(i) PROVE ImportInv'
<1>1. UNCHANGED <<storeVars, batchRow, iwf, child>> /\ halted' = halted
  BY DEF CancelRead
<1>2. /\ cancel \in [Imports -> CancelRows] /\ halted \subseteq Imports
      /\ importJob[i].status \in ImportStatus /\ importJob[i].frozen \in BOOLEAN
  BY ImportRows DEF JobRows
<1>3. (cancel \in [Imports -> CancelRows])' /\ (halted \subseteq Imports)'
  BY <1>1, <1>2 DEF CancelRead, CancelRows
<1> QED BY <1>1, <1>3, NothingMoves

\* See NothingMoves.
LEMMA CancelStopKeeps == ASSUME ImportInv, NEW i \in Imports, CancelStop(i) PROVE ImportInv'
<1>1. UNCHANGED <<storeVars, batchRow, iwf, child>>
  BY DEF CancelStop
<1>2. /\ cancel \in [Imports -> CancelRows] /\ halted \subseteq Imports
  BY ImportRows
<1>3. (cancel \in [Imports -> CancelRows])' /\ (halted \subseteq Imports)'
  BY <1>2 DEF CancelStop, CancelRows
<1> QED BY <1>1, <1>3, NothingMoves

\* A cancel request writes the status CANCELED, or what another session wrote stays, and removes
\* the selection, or leaves it.
LEMMA CancelMoves ==
  ASSUME ImportInv, NEW i \in Imports, UNCHANGED <<docs, batchRow, iwf, child, halted>>,
         (cancel \in [Imports -> CancelRows])',
         NEW job \in JobRows, importJob' = [importJob EXCEPT ![i] = job],
         job.status \in {importJob[i].status, "CANCELED"}, job.matter = importJob[i].matter,
         job.matched = importJob[i].matched, job.counts = importJob[i].counts,
         NEW sel \in SelectionRows, selection' = [selection EXCEPT ![i] = sel],
         sel = selection[i] \/ ~sel.row
  PROVE  ImportInv'
<1>1. /\ iwf[i] \in WorkflowRows /\ iwf' = [iwf EXCEPT ![i] = iwf[i]] /\ (halted \subseteq Imports)'
      /\ batchRow' = batchRow /\ child' = child /\ docs' = docs /\ iwf' = iwf
  BY SameRows, ImportRows
<1>2. importJob'[i] = job /\ selection'[i] = sel
  BY ImportRows
<1>3. sel.row => sel = selection[i] /\ selection[i].row
  OBVIOUS
<1>4. sel.row => sel.total = Len(sel.items) /\ Unique(sel.items)
  BY <1>3, SameRows DEF SelectionInv
<1>5. Completed(i)' => Completed(i)
  BY <1>2 DEF Completed
<1>6. LinkedInv(i)'
  <2>1. MayComplete(i)' => MayComplete(i)
    BY <1>1, <1>2, <1>5 DEF MayComplete
  <2>2. InMatter(importJob[i].matter)' = InMatter(importJob[i].matter)
    BY <1>1, <1>2 DEF InMatter
  <2>3. LinkedInv(i)
    BY SameRows
  <2> QED BY <1>1, <2>1, <2>2, <2>3 DEF LinkedInv, Linked
<1>7. PlanInv(i)'
  <2>1. PlanInv(i)
    BY SameRows
  <2> QED BY <1>1, <1>2, <1>3, <1>5, <2>1 DEF PlanInv
<1>8. ProgressInv(i)'
  <2>1. \A f : Count(i, f)' = Count(i, f)
    BY <1>1 DEF Count
  <2>2. ProgressInv(i)
    BY SameRows
  <2> QED BY <1>1, <1>2, <1>3, <1>5, <2>1, <2>2 DEF ProgressInv
<1> QED BY <1>1, <1>4, <1>6, <1>7, <1>8, WorkflowKeeps

\* See CancelMoves.
LEMMA CancelWriteKeeps == ASSUME ImportInv, NEW i \in Imports, CancelWrite(i) PROVE ImportInv'
<1> DEFINE new == Written(i, cancel[i].seen, "CANCELED")
           job == [importJob[i] EXCEPT !.status = new]
<1>1. /\ importJob \in [Imports -> JobRows] /\ importJob[i] \in JobRows
      /\ cancel \in [Imports -> CancelRows] /\ selection[i] \in SelectionRows
      /\ selection \in [Imports -> SelectionRows]
  BY ImportRows
<1>2. new \in {importJob[i].status, "CANCELED"}
  BY DEF Written
<1>3. importJob' = [importJob EXCEPT ![i] = job]
  BY <1>1 DEF CancelWrite
<1> HIDE DEF new
<1>4. new \in ImportStatus
  BY <1>1, <1>2 DEF JobRows, ImportStatus
<1>5. /\ job \in JobRows /\ job.status \in {importJob[i].status, "CANCELED"}
      /\ job.matter = importJob[i].matter
      /\ job.matched = importJob[i].matched /\ job.counts = importJob[i].counts
  BY <1>1, <1>2, <1>4 DEF JobRows
<1> HIDE DEF job
<1>6. UNCHANGED <<docs, batchRow, iwf, child, halted, selection>>
  BY DEF CancelWrite
<1>7. (cancel \in [Imports -> CancelRows])'
  BY <1>1 DEF CancelWrite, CancelRows
<1>8. selection' = [selection EXCEPT ![i] = selection[i]]
  BY <1>1, <1>6
<1> QED BY <1>1, <1>3, <1>5, <1>6, <1>7, <1>8, CancelMoves

\* See CancelMoves.
LEMMA CancelRemoveKeeps == ASSUME ImportInv, NEW i \in Imports, CancelRemove(i) PROVE ImportInv'
<1>1. /\ importJob \in [Imports -> JobRows] /\ importJob[i] \in JobRows
      /\ cancel \in [Imports -> CancelRows] /\ selection[i] \in SelectionRows
      /\ selection \in [Imports -> SelectionRows]
  BY ImportRows
<1>2. UNCHANGED <<docs, batchRow, iwf, child, halted>> /\ (cancel \in [Imports -> CancelRows])'
  BY <1>1 DEF CancelRemove, CancelRows
<1>3. CASE UNCHANGED <<selection, importJob>>
  <2>1. /\ selection' = [selection EXCEPT ![i] = selection[i]]
        /\ importJob' = [importJob EXCEPT ![i] = importJob[i]]
    BY <1>1, <1>3
  <2> QED BY <1>1, <1>2, <2>1, CancelMoves
<1>4. CASE RemoveSelection(i) /\ importJob' = [importJob EXCEPT ![i].frozen = FALSE]
  <2> DEFINE job == [importJob[i] EXCEPT !.frozen = FALSE]
  <2>1. /\ job \in JobRows /\ job.status = importJob[i].status /\ job.matter = importJob[i].matter
        /\ job.matched = importJob[i].matched /\ job.counts = importJob[i].counts
    BY <1>1 DEF JobRows
  <2>2. importJob' = [importJob EXCEPT ![i] = job]
    BY <1>1, <1>4
  <2> HIDE DEF job
  <2>3. NoSelection \in SelectionRows /\ ~NoSelection.row
    BY NoSelectionRow DEF NoSelection
  <2>4. selection' = [selection EXCEPT ![i] = NoSelection]
    BY <1>4 DEF RemoveSelection
  <2> QED BY <1>1, <1>2, <2>1, <2>2, <2>3, <2>4, CancelMoves
<1> QED BY <1>3, <1>4 DEF CancelRemove

\* Nothing has been imported.
LEMMA ImportsStart == ImportStart => ImportInv
<1> SUFFICES ASSUME ImportStart
             PROVE  ImportInv
  OBVIOUS
<1> USE DEF ImportStart, UploadedStore, ImportInit
<1>1. NoCounts \in ImportCounts
  BY DEF NoCounts, ImportCounts
<1>2. /\ importJob \in [Imports -> JobRows] /\ iwf \in [Imports -> WorkflowRows]
      /\ batchRow \in [Imports -> [Batches -> BatchRows]]
  BY <1>1 DEF NoImport, JobRows, ImportStatus, NoImportWorkflow, WorkflowRows, ImportPC,
              NoBatch, BatchRows
<1>3. selection \in [Imports -> SelectionRows]
  BY NoSelectionRow
<1>4. child \in [Imports -> [Batches -> ChildRows]] /\ cancel \in [Imports -> CancelRows]
  BY <1>1 DEF NoChild, ChildRows, ChildPC, NoCancel, CancelRows, ImportStatus
<1>5. ImportTypeOK
  <2>1. \A i \in Imports : selection[i].items \in Seq(ItemArtifacts)
    BY <1>3 DEF SelectionRows
  <2>2. docs \subseteq Document /\ halted \in SUBSET Imports
    OBVIOUS
  <2> QED BY <1>2, <1>4, <2>1, <2>2 DEF ImportTypeOK, JobRows, WorkflowRows, BatchRows, ChildRows,
                                        CancelRows
<1>6. ASSUME NEW i \in Imports
      PROVE  PerImport(i)
  <2>1. /\ importJob[i] = NoImport /\ iwf[i] = NoImportWorkflow /\ selection[i] = NoSelection
        /\ \A k \in Batches : child[i][k] = NoChild /\ batchRow[i][k] = NoBatch
    OBVIOUS
  <2>2. ~Completed(i) /\ iwf[i].pc = "none" /\ ~selection[i].row
    BY <2>1 DEF Completed, NoImport, NoImportWorkflow, NoSelection
  <2>3. RequestInv(i) /\ SelectionInv(i) /\ PlanInv(i) /\ ProgressInv(i) /\ LinkedInv(i)
    BY <2>2 DEF RequestInv, SelectionInv, PlanInv, ProgressInv, LinkedInv, MayComplete, Loaded
  <2>4. BatchInv(i)
    BY <2>1 DEF BatchInv, Agreed, NoChild, NoBatch
  <2>5. Accounted(i)
    <3>1. AddedBy(i) = {} /\ IsFiniteSet({}) /\ Cardinality({}) = 0
      BY FS_EmptySet DEF AddedBy
    <3> DEFINE f == [k \in Batches |->
                       IF batchRow[i][k].status = "COMPLETED" THEN batchRow[i][k]["added"] ELSE 0]
    <3>2. f \in [1..MaxBatches -> Nat] /\ \A k \in 1..MaxBatches : f[k] = 0
      BY <2>1 DEF NoBatch, Batches
    <3>3. Count(i, "added") = SumTo(f, MaxBatches)
      BY DEF Count
    <3> HIDE DEF f
    <3>4. SumTo(f, MaxBatches) = 0
      BY <3>2, ImportAssumption, SumOfZeros
    <3> QED BY <3>1, <3>3, <3>4 DEF Accounted
  <2> QED BY <2>3, <2>4, <2>5 DEF PerImport
<1>7. OneDocumentPerItem
  BY DEF OneDocumentPerItem
<1> QED BY <1>3, <1>5, <1>6, <1>7 DEF ImportInv

\* Every step keeps the invariant.
LEMMA ImportSteps ==
  ASSUME ImportInv, [ImportNext]_<<storeVars, importVars>>
  PROVE  ImportInv'
<1>1. ASSUME NEW i \in Imports, ImportStep(i)
      PROVE  ImportInv'
  BY <1>1, CommitImportKeeps, FreezeReadKeeps, FreezeMarkKeeps, SelectReadKeeps, SelectInsertKeeps,
     FrozenReadKeeps, RunKeeps, DropKeeps, LoadKeeps, CleanupKeeps, AwaitKeeps, CompleteReadKeeps,
     FinishKeeps, FailReadKeeps, FailWriteKeeps, HaltKeeps DEF ImportStep
<1>2. ASSUME NEW i \in Imports, CancelStep(i)
      PROVE  ImportInv'
  BY <1>2, CancelReadKeeps, CancelWriteKeeps, CancelRemoveKeeps, CancelStopKeeps DEF CancelStep
<1>3. ASSUME NEW i \in Imports, NEW k \in Batches,
             ChildStep(i, k) \/ ChildRestarts(i, k) \/ ChildGivesUp(i, k)
      PROVE  ImportInv'
  BY <1>3, ChildSkipsKeeps, ChildReadKeeps, ChildCommitKeeps, ProgressReadKeeps, ProgressWriteKeeps,
     ChildHaltsKeeps, ChildRestartsKeeps, ChildGivesUpKeeps DEF ChildStep
<1>4. ASSUME NEW i \in Imports, NEW c \in Collections, NEW m \in Matters, RequestImport(i, c, m)
      PROVE  ImportInv'
  BY <1>4, RequestImportKeeps
<1>5. CASE UNCHANGED <<storeVars, importVars>>
  <2>1. UNCHANGED <<storeVars, batchRow, iwf, child, cancel, halted>>
    BY <1>5 DEF importVars
  <2>2. (cancel \in [Imports -> CancelRows])' /\ (halted \subseteq Imports)'
    BY <2>1, ImportRows
  <2> QED BY <2>1, <2>2, NothingMoves
<1> QED BY <1>1, <1>2, <1>3, <1>4, <1>5, ImportRestartsKeeps, ImportGivesUpKeeps DEF ImportNext

\* The invariant of the imports.
THEOREM ImportInvariant == ImportSpec => []ImportInv
<1>1. ImportStart => ImportInv
  BY ImportsStart
<1>2. ImportInv /\ [ImportNext]_<<storeVars, importVars>> => ImportInv'
  BY ImportSteps
<1> QED BY <1>1, <1>2, PTL DEF ImportSpec


(***************************************************************************)
(* What is promised.                                                       *)
(***************************************************************************)

\* The batches of a completed import hold what its selection held, each of them has linked all its
\* items, and what they counted adds up.
LEMMA CompletedAddsUp ==
  ASSUME ImportInv, NEW i \in Imports, Completed(i)
  PROVE  /\ Cardinality(Planned(i)) = importJob[i].matched
         /\ Planned(i) \subseteq InMatter(importJob[i].matter)
         /\ Count(i, "added") + Count(i, "duplicate") = importJob[i].matched
<1>1. /\ batchRow[i] \in [Batches -> BatchRows] /\ MaxBatches \in Nat /\ Batches = 1..MaxBatches
      /\ child[i] \in [Batches -> ChildRows] /\ iwf[i].total \in Nat
  BY ImportRows, ImportAssumption DEF Batches, WorkflowRows
<1>2. PICK s \in Seq(ItemArtifacts) :
            /\ Unique(s) /\ Len(s) = iwf[i].total
            /\ \A k \in Batches : child[i][k].pc # "none" => child[i][k].items = Slice(s, k)
  BY SameRows DEF PlanInv
<1>3. /\ \A k \in Batches : child[i][k].pc # "none" <=> k <= BatchCount(Len(s))
      /\ \A k \in Batches : child[i][k].pc \in {"none", "done"}
      /\ importJob[i].matched = Len(s)
  <2>1. ProgressInv(i)
    BY SameRows
  <2> QED BY <1>2, <2>1 DEF ProgressInv
<1> DEFINE R == {s[x] : x \in 1..Len(s)}
           A == [k \in Batches |-> child[i][k].items]
<1>4. IsFiniteSet(R) /\ Cardinality(R) = Len(s) /\ BatchCount(Len(s)) <= MaxBatches
  BY <1>2, UniqueSequences
<1>5. /\ \A j, k \in Nat : j # k => Slice(s, j) \cap Slice(s, k) = {}
      /\ \A x \in 1..Len(s) : \E k \in 1..BatchCount(Len(s)) : s[x] \in Slice(s, k)
      /\ \A k \in Nat : Slice(s, k) \subseteq R
  BY <1>2, SlicesPartition
<1>6. \A k \in Batches : \/ k <= BatchCount(Len(s)) /\ A[k] = Slice(s, k)
                         \/ A[k] = {}
  <2>1. \A k \in Batches : child[i][k].pc = "none" => child[i][k].items = {}
    BY SameRows DEF BatchInv, Agreed
  <2> QED BY <1>2, <1>3, <2>1
<1>7. \A k \in Batches : k <= BatchCount(Len(s)) => A[k] = Slice(s, k)
  BY <1>2, <1>3
<1>8. \A k \in Batches : A[k] \subseteq InMatter(importJob[i].matter)
  <2> SUFFICES ASSUME NEW k \in Batches
               PROVE  A[k] \subseteq InMatter(importJob[i].matter)
    OBVIOUS
  <2>1. CASE child[i][k].pc = "none"
    BY <2>1, SameRows DEF BatchInv, Agreed
  <2>2. CASE child[i][k].pc = "done"
    <3>1. batchRow[i][k].status = "COMPLETED"
      BY <2>2, SameRows DEF BatchInv, Agreed
    <3>2. Linked(i, k)
      BY <3>1, SameRows DEF LinkedInv, MayComplete
    <3> QED BY <3>2 DEF Linked
  <2> QED BY <1>3, <2>1, <2>2
<1> DEFINE f == [k \in Batches |->
                   IF batchRow[i][k].status = "COMPLETED" THEN batchRow[i][k]["added"] ELSE 0]
           g == [k \in Batches |->
                   IF batchRow[i][k].status = "COMPLETED" THEN batchRow[i][k]["duplicate"] ELSE 0]
           h == [k \in Batches |-> f[k] + g[k]]
<1>9. f \in [1..MaxBatches -> Nat] /\ g \in [1..MaxBatches -> Nat]
  BY <1>1 DEF BatchRows
<1>10. Count(i, "added") = SumTo(f, MaxBatches) /\ Count(i, "duplicate") = SumTo(g, MaxBatches)
  BY DEF Count
<1>11. \A k \in Batches : f[k] + g[k] = Cardinality(A[k])
  <2> SUFFICES ASSUME NEW k \in Batches
               PROVE  f[k] + g[k] = Cardinality(A[k])
    OBVIOUS
  <2>1. CASE child[i][k].pc = "none"
    <3>1. child[i][k].items = {} /\ batchRow[i][k].status = "NONE"
      BY <2>1, SameRows DEF BatchInv, Agreed
    <3>2. f[k] = 0 /\ g[k] = 0 /\ A[k] = {}
      BY <3>1
    <3>3. Cardinality({}) = 0
      BY FS_EmptySet
    <3> HIDE DEF f, g, A
    <3> QED BY <3>2, <3>3
  <2>2. CASE child[i][k].pc = "done"
    <3>1. batchRow[i][k].status = "COMPLETED"
      BY <2>2, SameRows DEF BatchInv, Agreed
    <3>2. Linked(i, k)
      BY <3>1, SameRows DEF LinkedInv, MayComplete
    <3>3. f[k] = batchRow[i][k].added /\ g[k] = batchRow[i][k].duplicate
      BY <3>1
    <3> QED BY <3>2, <3>3 DEF Linked
  <2> QED BY <1>3, <2>1, <2>2
<1> DEFINE U == UNION {A[k] : k \in 1..MaxBatches}
<1>12. Planned(i) = U
  BY <1>1 DEF Planned
<1> HIDE DEF A, f, g
<1>13. U = R
  <2>1. \A k \in 1..MaxBatches : A[k] \subseteq R
    <3> HIDE DEF R
    <3>1. \A k \in 1..MaxBatches : k \in Nat /\ k \in Batches
      BY <1>1
    <3> QED BY <1>5, <1>6, <3>1
  <2>2. \A x \in 1..Len(s) : \E k \in 1..MaxBatches : s[x] \in A[k]
    <3> SUFFICES ASSUME NEW x \in 1..Len(s)
                 PROVE  \E k \in 1..MaxBatches : s[x] \in A[k]
      OBVIOUS
    <3>1. PICK k \in 1..BatchCount(Len(s)) : s[x] \in Slice(s, k)
      BY <1>5
    <3>2. PICK b \in Nat : b = BatchCount(Len(s))
      BY <1>1, <1>2, BatchCounts
    <3>3. k \in 1..b /\ b <= MaxBatches
      BY <1>4, <3>1, <3>2
    <3>4. k \in 1..MaxBatches /\ k <= b
      BY <1>1, <3>3
    <3> QED BY <1>1, <1>7, <3>1, <3>2, <3>4
  <2> QED BY <2>1, <2>2
<1> HIDE DEF R
<1>14. h \in [1..MaxBatches -> Nat] /\ \A k \in 1..MaxBatches : h[k] = f[k] + g[k]
  BY <1>1, <1>9
<1> HIDE DEF h
<1>15. Cardinality(U) = SumTo(h, MaxBatches)
  <2>1. \A k \in 1..MaxBatches : h[k] = Cardinality(A[k])
    BY <1>1, <1>11, <1>14
  <2>2. \A k \in 1..MaxBatches : IsFiniteSet(A[k])
    <3> SUFFICES ASSUME NEW k \in 1..MaxBatches
                 PROVE  IsFiniteSet(A[k])
      OBVIOUS
    <3>1. A[k] \subseteq R
      BY <1>13
    <3> QED BY <1>4, <3>1, FS_Subset
  <2>3. \A j, k \in 1..MaxBatches : j # k => A[j] \cap A[k] = {}
    <3> SUFFICES ASSUME NEW j \in 1..MaxBatches, NEW k \in 1..MaxBatches, j # k
                 PROVE  A[j] \cap A[k] = {}
      OBVIOUS
    <3>1. /\ A[j] = Slice(s, j) \/ A[j] = {}
          /\ A[k] = Slice(s, k) \/ A[k] = {}
      BY <1>1, <1>6
    <3>2. j \in Nat /\ k \in Nat
      OBVIOUS
    <3>3. Slice(s, j) \cap Slice(s, k) = {}
      BY <1>5, <3>2
    <3> QED BY <3>1, <3>3
  <2> QED BY <1>1, <1>14, <2>1, <2>2, <2>3, SumOfCardinalities
<1>16. SumTo(h, MaxBatches) = SumTo(f, MaxBatches) + SumTo(g, MaxBatches)
  BY <1>1, <1>9, <1>14, SumAdds
<1>17. Planned(i) \subseteq InMatter(importJob[i].matter)
  BY <1>1, <1>8, <1>12
<1> QED BY <1>3, <1>4, <1>10, <1>12, <1>13, <1>15, <1>16, <1>17

\* Every variable holds a value that its column or program counter can hold.
THEOREM ImportTyped == ImportSpec => []ImportTypeOK
<1>1. ImportInv => ImportTypeOK
  BY DEF ImportInv
<1> QED BY <1>1, ImportInvariant, PTL

\* A matter has at most one document of an item, whichever imports race to add it: the unique
\* index that process_batch relies on.
THEOREM DocumentsUnique == ImportSpec => []OneDocumentPerItem
<1>1. ImportInv => OneDocumentPerItem
  BY DEF ImportInv
<1> QED BY <1>1, ImportInvariant, PTL

\* The batch rows account for every document that an import added, at every moment and however
\* often a batch is executed.
THEOREM BatchesAccounted == ImportSpec => []BatchesAccountForDocuments
<1>1. ImportInv => BatchesAccountForDocuments
  BY DEF ImportInv, PerImport, Accounted, BatchesAccountForDocuments
<1> QED BY <1>1, ImportInvariant, PTL

\* An import that is COMPLETED has linked its whole selection and its counts are exact, whatever
\* other imports, cancel requests, failures and restarts ran at the same time.
THEOREM ImportsComplete == ImportSpec => []CompletedIsComplete
<1>1. ASSUME ImportInv, NEW i \in Imports, Completed(i)
      PROVE  /\ Cardinality(Planned(i)) = importJob[i].matched
             /\ Planned(i) \subseteq InMatter(importJob[i].matter)
             /\ ~ selection[i].row
             /\ importJob[i].counts.added = Cardinality(AddedBy(i))
             /\ importJob[i].counts.processed = importJob[i].matched
             /\ importJob[i].counts.added + importJob[i].counts.duplicate
                   = importJob[i].counts.processed
  <2>1. /\ ~ selection[i].row
        /\ importJob[i].counts.added = Count(i, "added")
        /\ importJob[i].counts.duplicate = Count(i, "duplicate")
        /\ importJob[i].counts.processed = importJob[i].matched
    BY <1>1, SameRows DEF ProgressInv
  <2>2. Count(i, "added") = Cardinality(AddedBy(i))
    BY <1>1, SameRows DEF Accounted
  <2> QED BY <1>1, <2>1, <2>2, CompletedAddsUp
<1>2. ImportInv => CompletedIsComplete
  BY <1>1 DEF CompletedIsComplete, Completed
<1> QED BY <1>2, ImportInvariant, PTL
=============================================================================

------------------------- MODULE SearchProjectionProofs -------------------------
(***************************************************************************)
(* Theorems about the search projection (SearchProjection), for any values *)
(* of the constants: the rows keep their types and a matter has one active *)
(* generation; and, while builds and cleanups take turns (InTurn), search  *)
(* is never interrupted and what was completed can be found.               *)
(*                                                                         *)
(* ProjectionTyped: the values of the rows and of the workflows' memory.   *)
(* AliasInv: what keeps the alias on one existing index; a task that holds *)
(* the lock builds an index whose row nobody sees, and a cleanup that      *)
(* holds no lock works for the index that is active and behind the alias.  *)
(* ContentInv: what keeps documents in the index; what was projected is in *)
(* the active index, and an index that is about to become the active one   *)
(* has it too.                                                             *)
(***************************************************************************)
EXTENDS SearchProjection, SumsProofs

(***************************************************************************)
(* Values.                                                                 *)
(***************************************************************************)
Entries ==
    {e \in [version : Nat, batches : SUBSET (Batches \cup {NoBatch})] : e.version > 0 \/ e = Absent}
Contents == [MatterDocs -> Entries]

Building == {"fill", "switch", "activate"}
Tidying == {"list", "tidy"}
Projecting == Tidying \cup {"read", "write", "complete"}
Placed == Building \cup Projecting \cup {"relock", "synced"}
ProgramCounters == Placed \cup Ended \cup {"queued", "begin", "ensure"}

TaskRows ==
    [op : Nat, batch : Batches \cup {NoBatch}, pc : ProgramCounters, gen : 0..MaxIndexes,
     attempts : Nat, read : Contents, doomed : SUBSET Generations]
OperationRows ==
    [kind : OperationKinds, docs : SUBSET MatterDocs, status : OperationStatus,
     since : [MatterDocs -> Nat]]
ProjectedBatches ==
    [status : BatchStatus, selection : {"ALL_MATTER"}, source : {NoBatch}, sample : {0},
     order : {<<>>}, members : Seq(MatterDocs), count : Nat, assigned : {Nobody},
     search : SearchStatus, build : BuildPC, attempts : {0}]

GenerationRow(row) ==
    row = [status |-> row.status, schema |-> row.schema] /\ row.status \in GenerationStatus

ProjectionTyped ==
    /\ documents \in Seq(MatterDocs)
    /\ batch \in [Batches -> ProjectedBatches]
    /\ version \in [MatterDocs -> Nat]
    /\ ops \in Seq(OperationRows)
    /\ tasks \in Seq(TaskRows)
    /\ gens = [n \in Generations |-> gens[n]] /\ \A n \in Generations : GenerationRow(gens[n])
    /\ index \in [Generations -> Contents \cup {Missing}]
    /\ alias \subseteq Generations
    /\ \A t \in TaskIds : /\ tasks[t].op <= Len(ops)
                          /\ tasks[t].op = 0 => tasks[t].batch \in Batches
                          /\ tasks[t].pc \in Placed => tasks[t].gen \in Generations
    /\ \A m, n \in Active : m = n

(***************************************************************************)
(* The alias and the index behind it.                                      *)
(***************************************************************************)
\* What a task that builds, or cleans up after a commit, relies on.
Sound(t) ==
    /\ tasks[t].pc \in Building => gens[tasks[t].gen].status = "NONE"
    /\ tasks[t].pc = "activate" => alias = {tasks[t].gen} /\ Exists(tasks[t].gen)
    /\ tasks[t].pc \in Tidying => Active = {tasks[t].gen} /\ alias = {tasks[t].gen}
    /\ tasks[t].pc = "tidy" => tasks[t].gen \notin tasks[t].doomed

\* Tasks that hold the lock, or whose cleanup follows its end.
Apart(t, u) ==
    /\ (tasks[t].pc \in Locking /\ tasks[u].pc \in Locking) => t = u
    /\ tasks[t].pc \in Building => tasks[u].pc \notin Tidying

AliasInv ==
    /\ \A m, n \in alias : m = n
    /\ Active # {} => alias # {}
    /\ \A n \in alias : Exists(n)
    /\ \A t \in TaskIds : Sound(t)
    /\ \A t, u \in TaskIds : Apart(t, u)

(***************************************************************************)
(* What is in the index.                                                   *)
(***************************************************************************)
Held(n, d) == Exists(n) /\ index[n][d].version > 0

\* The documents of an operation are in every index that is active.
Shown(o) == \A d \in ops[o].docs : Active # {} /\ \A n \in Active : Held(n, d)

\* An operation that completed, or has a workflow beyond ensure.
Reached(o) ==
    \/ ops[o].status = "COMPLETED"
    \/ \E t \in TaskIds : tasks[t].op = o /\ tasks[t].pc \in Projecting

\* What a task has projected, or is about to write into the active index.
Projects(t) ==
    LET o == tasks[t].op
    IN  /\ tasks[t].pc \in Projecting => Active # {}
        /\ tasks[t].pc \in Projecting \ {"complete"} => \A d \in ops[o].docs, n \in Active :
              Held(n, d) \/ (ops[o].kind = "DOCUMENT_UPSERT" /\ n = tasks[t].gen)
        /\ tasks[t].pc = "write" => \A d \in ops[o].docs : tasks[t].read[d].version > 0
        /\ tasks[t].pc = "complete" => Shown(o)

\* An index that is about to become the active one holds what has been projected.
Fills(t) ==
    tasks[t].pc \in {"switch", "activate"} =>
        \A o \in DOMAIN ops : (Reached(o) \/ o = tasks[t].op) =>
            \A d \in ops[o].docs : Held(tasks[t].gen, d)

\* A rebuild is the work of one task, whose operation is not completed before it ends.
Rebuilds(t) ==
    /\ (tasks[t].pc \in Building /\ Active # {}) => Forced(t)
    /\ (Forced(t) /\ tasks[t].pc \notin Ended) => /\ ops[tasks[t].op].status # "COMPLETED"
          /\ \A u \in TaskIds : (tasks[u].op = tasks[t].op /\ tasks[u].pc \notin Ended) => u = t

\* A rebuild that has moved the alias and died before its commit is not done.
Repairing(t) == Forced(t) /\ tasks[t].pc \in Building \cup {"begin", "ensure", "error"}

ContentInv ==
    /\ \A t \in TaskIds : (~IsBatch(t) => Projects(t)) /\ Fills(t) /\ Rebuilds(t)
    /\ \A o \in DOMAIN ops : ops[o].status = "COMPLETED" => Shown(o)
    /\ \A o \in DOMAIN ops : ops[o].kind = "SCHEMA_SYNC" => ops[o].docs = {}
    /\ \A o \in DOMAIN ops : \A d \in ops[o].docs : version[d] > 0 /\ d \in ToSet(documents)
    /\ \A d \in MatterDocs : version[d] > 0 => \E o \in DOMAIN ops : d \in ops[o].docs /\ ops[o].since[d] = 1
    /\ Active # {} => (alias = Active \/ \E t \in TaskIds : Repairing(t))

(***************************************************************************)
(* Rows, and what a step does to them.                                     *)
(***************************************************************************)
Moves(t, row) ==
    /\ row \in TaskRows /\ row.op = tasks[t].op /\ row.batch = tasks[t].batch
    /\ row.pc \in Placed => row.gen \in Generations
    /\ tasks' = [tasks EXCEPT ![t] = row]

\* The operations keep what they are about.
KeepsOperations ==
    /\ ops' \in Seq(OperationRows) /\ Len(ops') = Len(ops)
    /\ \A o \in DOMAIN ops : /\ ops'[o].kind = ops[o].kind /\ ops'[o].docs = ops[o].docs
                             /\ ops'[o].since = ops[o].since

\* The values of the model.
LEMMA Values ==
  /\ Absent \in Entries /\ EmptyIndex \in Contents /\ MaxIndexes \in Nat
  /\ Missing \notin Contents
<1>1. MatterDocs # {} /\ MaxIndexes \in Nat
  BY ProjectionAssumption
<1>2. Absent \in Entries
  BY DEF Absent, Entries
<1>3. \A c \in Contents : DOMAIN c = MatterDocs
  BY DEF Contents
<1>4. DOMAIN Missing = {}
  BY DEF Missing
<1>5. EmptyIndex \in Contents
  BY <1>2 DEF EmptyIndex, Contents
<1> QED BY <1>1, <1>2, <1>3, <1>4, <1>5

\* What a row of the tasks is.
LEMMA TaskRow ==
  ASSUME ProjectionTyped, NEW t \in TaskIds
  PROVE  /\ tasks[t] \in TaskRows /\ t \in 1..Len(tasks) /\ TaskIds = 1..Len(tasks)
         /\ tasks[t].op \in 0..Len(ops) /\ Len(ops) \in Nat
         /\ tasks[t].op = 0 => tasks[t].batch \in Batches
         /\ tasks[t].pc \in Placed => tasks[t].gen \in Generations
<1>1. TaskIds = 1..Len(tasks) /\ tasks \in Seq(TaskRows) /\ ops \in Seq(OperationRows)
  BY DEF ProjectionTyped, TaskIds
<1>2. tasks[t] \in TaskRows
  BY <1>1
<1>3. /\ tasks[t].op <= Len(ops) /\ (tasks[t].op = 0 => tasks[t].batch \in Batches)
      /\ tasks[t].pc \in Placed => tasks[t].gen \in Generations
  BY DEF ProjectionTyped
<1>4. tasks[t].op \in Nat
  BY <1>2 DEF TaskRows
<1> QED BY <1>1, <1>2, <1>3, <1>4

\* The tasks after one of them moved.
LEMMA TaskMoved ==
  ASSUME ProjectionTyped, NEW t \in TaskIds, NEW row, Moves(t, row)
  PROVE  /\ tasks' \in Seq(TaskRows) /\ TaskIds' = TaskIds /\ Len(tasks') = Len(tasks)
         /\ tasks'[t] = row /\ \A u \in TaskIds : u # t => tasks'[u] = tasks[u]
         /\ \A u \in TaskIds : tasks'[u].op = tasks[u].op /\ tasks'[u].batch = tasks[u].batch
         /\ \A u \in TaskIds : tasks'[u].pc \in Placed => tasks'[u].gen \in Generations
<1>1. TaskIds = 1..Len(tasks) /\ tasks \in Seq(TaskRows) /\ row \in TaskRows /\ t \in 1..Len(tasks)
  BY TaskRow DEF ProjectionTyped, TaskIds, Moves
<1>2. tasks' = [tasks EXCEPT ![t] = row]
  BY DEF Moves
<1>3. tasks' \in Seq(TaskRows) /\ Len(tasks') = Len(tasks)
  BY <1>1, <1>2
<1>4. tasks'[t] = row /\ \A u \in TaskIds : u # t => tasks'[u] = tasks[u]
  BY <1>1, <1>2
<1>5. TaskIds' = TaskIds
  BY <1>1, <1>3 DEF TaskIds
<1>6. row.op = tasks[t].op /\ row.batch = tasks[t].batch /\ (row.pc \in Placed => row.gen \in Generations)
  BY DEF Moves
<1>7. \A u \in TaskIds : tasks[u].pc \in Placed => tasks[u].gen \in Generations
  BY DEF ProjectionTyped
<1> QED BY <1>3, <1>4, <1>5, <1>6, <1>7

\* The operations after the status of one changed.
LEMMA OperationSet ==
  ASSUME ProjectionTyped, NEW t \in TaskIds, NEW s \in OperationStatus, SetOperation(t, s)
  PROVE  /\ KeepsOperations /\ DOMAIN ops' = DOMAIN ops
         /\ \A o \in DOMAIN ops : ops'[o].status = IF o = tasks[t].op THEN s ELSE ops[o].status
<1>1. ops \in Seq(OperationRows) /\ DOMAIN ops = 1..Len(ops) /\ Len(ops) \in Nat
  BY DEF ProjectionTyped
<1>2. \A o \in DOMAIN ops : ops[o] \in OperationRows
  BY <1>1
<1>3. CASE IsBatch(t)
  BY <1>1, <1>3 DEF IsBatch, SetOperation, KeepsOperations
<1>4. CASE ~IsBatch(t)
  <2>1. tasks[t].op \in DOMAIN ops
    BY <1>1, <1>4, TaskRow DEF IsBatch
  <2> DEFINE row == [ops[tasks[t].op] EXCEPT !.status = s]
  <2>2. row \in OperationRows
    BY <1>2, <2>1 DEF OperationRows
  <2>3. ops' = [ops EXCEPT ![tasks[t].op] = row]
    BY <1>4 DEF SetOperation
  <2>4. /\ row.kind = ops[tasks[t].op].kind /\ row.docs = ops[tasks[t].op].docs /\ row.status = s
        /\ row.since = ops[tasks[t].op].since
    BY <1>2, <2>1 DEF OperationRows
  <2> HIDE DEF row
  <2>5. ops' \in Seq(OperationRows) /\ Len(ops') = Len(ops)
    BY <1>1, <2>1, <2>2, <2>3
  <2>6. \A o \in DOMAIN ops : ops'[o] = IF o = tasks[t].op THEN row ELSE ops[o]
    BY <1>1, <2>1, <2>3
  <2>7. DOMAIN ops' = DOMAIN ops
    BY <1>1, <2>5
  <2> QED BY <2>4, <2>5, <2>6, <2>7 DEF KeepsOperations
<1> QED BY <1>3, <1>4

LEMMA OperationsKept ==
  ASSUME ProjectionTyped, UNCHANGED ops
  PROVE  KeepsOperations /\ DOMAIN ops' = DOMAIN ops
BY DEF ProjectionTyped, KeepsOperations

\* The batches after the search status of one changed.
LEMMA SearchSet ==
  ASSUME ProjectionTyped, NEW t \in TaskIds, NEW s \in SearchStatus, SetSearch(t, s)
  PROVE  batch' \in [Batches -> ProjectedBatches]
<1>1. batch \in [Batches -> ProjectedBatches]
  BY DEF ProjectionTyped
<1>2. CASE ~IsBatch(t)
  BY <1>1, <1>2 DEF SetSearch
<1>3. CASE IsBatch(t)
  <2>1. tasks[t].batch \in Batches
    BY <1>3, TaskRow DEF IsBatch
  <2>2. \A r \in ProjectedBatches : [r EXCEPT !.search = s] \in ProjectedBatches
    BY DEF ProjectedBatches
  <2>3. batch' = [batch EXCEPT ![tasks[t].batch] = [batch[tasks[t].batch] EXCEPT !.search = s]]
    BY <1>3 DEF SetSearch
  <2> QED BY <1>1, <2>1, <2>2, <2>3
<1> QED BY <1>2, <1>3

\* The types after a step of a task that leaves the documents alone.
LEMMA TypedAfter ==
  ASSUME ProjectionTyped, NEW t \in TaskIds, NEW row, Moves(t, row), KeepsOperations,
         UNCHANGED <<documents, version>>, batch' \in [Batches -> ProjectedBatches],
         gens' = [n \in Generations |-> gens'[n]], \A n \in Generations : GenerationRow(gens'[n]),
         index' \in [Generations -> Contents \cup {Missing}], alias' \subseteq Generations,
         \A m, n \in Active' : m = n
  PROVE  ProjectionTyped'
<1>1. ops' \in Seq(OperationRows) /\ Len(ops') = Len(ops)
  BY DEF KeepsOperations
<1>2. documents' \in Seq(MatterDocs) /\ version' \in [MatterDocs -> Nat]
  BY DEF ProjectionTyped
<1>3. tasks' \in Seq(TaskRows) /\ \A u \in TaskIds' :
         /\ tasks'[u].op <= Len(ops') /\ (tasks'[u].op = 0 => tasks'[u].batch \in Batches)
         /\ tasks'[u].pc \in Placed => tasks'[u].gen \in Generations
  BY <1>1, TaskMoved DEF ProjectionTyped
<1>4. (\A n \in Generations : GenerationRow(gens[n]))'
  OBVIOUS
<1>5. Generations' = Generations /\ Contents' = Contents /\ Missing' = Missing
  BY DEF Generations, Contents, Entries, Missing, Absent
<1> QED BY <1>1, <1>2, <1>3, <1>4, <1>5 DEF ProjectionTyped

\* The status of a task's operation is set.
Statuses(t, s) == \A o \in DOMAIN ops : ops'[o].status = IF o = tasks[t].op THEN s ELSE ops[o].status

\* A task moves when its row is replaced.
LEMMA RowReplaced ==
  ASSUME ProjectionTyped, NEW t \in TaskIds, NEW row \in TaskRows,
         row.op = tasks[t].op, row.batch = tasks[t].batch,
         row.pc \in Placed => row.gen \in Generations,
         tasks' = [tasks EXCEPT ![t] = row]
  PROVE  Moves(t, tasks'[t]) /\ tasks'[t] = row
<1>1. t \in DOMAIN tasks
  BY DEF TaskIds
<1>2. tasks'[t] = row
  BY <1>1
<1> QED BY <1>2 DEF Moves

LEMMA GotoStep ==
  ASSUME ProjectionTyped, NEW t \in TaskIds, NEW pc \in ProgramCounters,
         pc \in Placed => tasks[t].gen \in Generations, Goto(t, pc)
  PROVE  /\ Moves(t, tasks'[t]) /\ tasks'[t].pc = pc /\ tasks'[t].gen = tasks[t].gen
         /\ tasks'[t].doomed = tasks[t].doomed /\ tasks'[t].read = tasks[t].read
<1> DEFINE row == [tasks[t] EXCEPT !.pc = pc]
<1>1. /\ row \in TaskRows /\ row.op = tasks[t].op /\ row.batch = tasks[t].batch /\ row.pc = pc
      /\ row.gen = tasks[t].gen /\ row.doomed = tasks[t].doomed /\ row.read = tasks[t].read
  BY TaskRow DEF TaskRows
<1>2. tasks' = [tasks EXCEPT ![t] = row]
  BY DEF Goto
<1> HIDE DEF row
<1> QED BY <1>1, <1>2, RowReplaced

\* A task starts again, or ends, with these attempts used.
LEMMA RestartStep ==
  ASSUME ProjectionTyped, NEW t \in TaskIds, NEW pc \in {"begin", "done", "error"}, NEW a \in Nat,
         tasks' = [tasks EXCEPT ![t] = [NewTask(tasks[t].op, tasks[t].batch) EXCEPT !.attempts = a, !.pc = pc]]
  PROVE  Moves(t, tasks'[t]) /\ tasks'[t].pc = pc
<1> DEFINE row == [NewTask(tasks[t].op, tasks[t].batch) EXCEPT !.attempts = a, !.pc = pc]
<1>1. tasks[t].op \in Nat /\ tasks[t].batch \in Batches \cup {NoBatch}
  BY TaskRow DEF TaskRows
<1>2. pc \in ProgramCounters /\ pc \notin Placed
  BY DEF ProgramCounters, Placed, Building, Projecting, Tidying, Ended
<1>3. row \in TaskRows /\ row.op = tasks[t].op /\ row.batch = tasks[t].batch /\ row.pc = pc
  <2>1. 0 \in 0..MaxIndexes /\ EmptyIndex \in Contents
    BY Values
  <2> QED BY <1>1, <1>2, <2>1 DEF NewTask, TaskRows
<1>4. tasks' = [tasks EXCEPT ![t] = row]
  OBVIOUS
<1> HIDE DEF row
<1> QED BY <1>2, <1>3, <1>4, RowReplaced

LEMMA FinishStep ==
  ASSUME ProjectionTyped, NEW t \in TaskIds, Finish(t)
  PROVE  Moves(t, tasks'[t]) /\ tasks'[t].pc = "done"
<1>1. [NewTask(tasks[t].op, tasks[t].batch) EXCEPT !.pc = "done"]
        = [NewTask(tasks[t].op, tasks[t].batch) EXCEPT !.attempts = 0, !.pc = "done"]
  <2>1. NewTask(tasks[t].op, tasks[t].batch)
          = [NewTask(tasks[t].op, tasks[t].batch) EXCEPT !.attempts = 0]
    BY DEF NewTask
  <2>2. \A row : row = [row EXCEPT !.attempts = 0]
                  => [row EXCEPT !.pc = "done"] = [row EXCEPT !.attempts = 0, !.pc = "done"]
    OBVIOUS
  <2> QED BY <2>1, <2>2
<1>2. tasks' = [tasks EXCEPT ![t] = [NewTask(tasks[t].op, tasks[t].batch) EXCEPT !.pc = "done"]]
  BY DEF Finish
<1>3. tasks' = [tasks EXCEPT ![t] = [NewTask(tasks[t].op, tasks[t].batch) EXCEPT !.attempts = 0, !.pc = "done"]]
  BY <1>1, <1>2
<1> QED BY <1>3, RestartStep

LEMMA FailedTaskStep ==
  ASSUME ProjectionTyped, NEW t \in TaskIds, tasks' = [tasks EXCEPT ![t] = FailedTask(t)]
  PROVE  Moves(t, tasks'[t]) /\ tasks'[t].pc \in {"begin", "error"}
<1>1. tasks[t].attempts \in Nat
  BY TaskRow DEF TaskRows
<1> DEFINE a == IF tasks[t].attempts + 1 = MaxAttempts THEN 0 ELSE tasks[t].attempts + 1
           pc == IF tasks[t].attempts + 1 = MaxAttempts THEN "error" ELSE "begin"
<1>2. a \in Nat /\ pc \in {"begin", "error"}
  BY <1>1
<1>3. FailedTask(t) = [NewTask(tasks[t].op, tasks[t].batch) EXCEPT !.attempts = a, !.pc = pc]
  BY DEF FailedTask
<1> HIDE DEF a, pc
<1> QED BY <1>2, <1>3, RestartStep

LEMMA FailStep ==
  ASSUME ProjectionTyped, NEW t \in TaskIds, Fail(t)
  PROVE  /\ Moves(t, tasks'[t]) /\ tasks'[t].pc \in {"begin", "error"}
         /\ KeepsOperations /\ DOMAIN ops' = DOMAIN ops /\ Statuses(t, "FAILED")
         /\ batch' \in [Batches -> ProjectedBatches]
<1>1. Moves(t, tasks'[t]) /\ tasks'[t].pc \in {"begin", "error"}
  BY FailedTaskStep DEF Fail
<1>2. "FAILED" \in OperationStatus /\ "FAILED" \in SearchStatus
  BY DEF OperationStatus, SearchStatus
<1> QED BY <1>1, <1>2, OperationSet, SearchSet DEF Fail, Statuses

(***************************************************************************)
(* What each step of a task does: the types stay, the task moves on.       *)
(***************************************************************************)
Stepped(t) ==
    /\ ProjectionTyped' /\ Moves(t, tasks'[t]) /\ KeepsOperations /\ DOMAIN ops' = DOMAIN ops
    /\ UNCHANGED <<documents, version>>

\* A step that leaves the generations, the indexes and the alias alone.
LEMMA SteppedInPlace ==
  ASSUME ProjectionTyped, NEW t \in TaskIds, Moves(t, tasks'[t]), KeepsOperations,
         DOMAIN ops' = DOMAIN ops,
         batch' \in [Batches -> ProjectedBatches],
         UNCHANGED <<documents, version, gens, index, alias>>
  PROVE  Stepped(t) /\ Active' = Active
<1>1. Active' = Active
  BY DEF Active
<1>2. /\ gens = [n \in Generations |-> gens[n]] /\ \A n \in Generations : GenerationRow(gens[n])
      /\ index \in [Generations -> Contents \cup {Missing}] /\ alias \subseteq Generations
      /\ \A m, n \in Active : m = n
  BY DEF ProjectionTyped
<1>3. /\ gens' = [n \in Generations |-> gens'[n]] /\ \A n \in Generations : GenerationRow(gens'[n])
      /\ index' \in [Generations -> Contents \cup {Missing}] /\ alias' \subseteq Generations
      /\ \A m, n \in Active' : m = n
  BY <1>1, <1>2
<1>4. ProjectionTyped'
  BY <1>3, TypedAfter
<1> QED BY <1>1, <1>4 DEF Stepped

LEMMA BatchesKept ==
  ASSUME ProjectionTyped, UNCHANGED batch
  PROVE  batch' \in [Batches -> ProjectedBatches]
BY DEF ProjectionTyped

LEMMA BeginStep ==
  ASSUME ProjectionTyped, NEW t \in TaskIds, Begin(t)
  PROVE  /\ Stepped(t) /\ Active' = Active /\ UNCHANGED <<gens, index, alias>>
         /\ tasks[t].pc \in {"queued", "begin"}
         /\ \/ ops' = ops /\ tasks'[t].pc = "done" /\ ~IsBatch(t) /\ ops[tasks[t].op].status = "COMPLETED"
            \/ Statuses(t, "RUNNING") /\ tasks'[t].pc = "ensure"
<1>1. UNCHANGED <<documents, version, gens, index, alias>>
  BY DEF Begin, databaseVars
<1>2. tasks[t].pc \in {"queued", "begin"}
  BY DEF Begin, At
<1>3. CASE Finish(t) /\ UNCHANGED <<ops, batch>> /\ ~IsBatch(t) /\ ops[tasks[t].op].status = "COMPLETED"
  <2>1. Stepped(t) /\ Active' = Active
    BY <1>1, <1>3, FinishStep, OperationsKept, BatchesKept, SteppedInPlace
  <2> QED BY <1>1, <1>2, <1>3, <2>1, FinishStep
<1>4. CASE Goto(t, "ensure") /\ SetOperation(t, "RUNNING") /\ SetSearch(t, "SYNCING")
  <2>1. "ensure" \in ProgramCounters /\ "ensure" \notin Placed
    BY DEF ProgramCounters, Placed, Building, Projecting, Tidying
  <2>2. "RUNNING" \in OperationStatus /\ "SYNCING" \in SearchStatus
    BY DEF OperationStatus, SearchStatus
  <2>3. Moves(t, tasks'[t]) /\ tasks'[t].pc = "ensure"
    BY <1>4, <2>1, GotoStep
  <2>4. /\ KeepsOperations /\ DOMAIN ops' = DOMAIN ops /\ Statuses(t, "RUNNING")
        /\ batch' \in [Batches -> ProjectedBatches]
    BY <1>4, <2>2, OperationSet, SearchSet DEF Statuses
  <2>5. Stepped(t) /\ Active' = Active
    BY <1>1, <2>3, <2>4, SteppedInPlace
  <2> QED BY <1>1, <1>2, <2>3, <2>4, <2>5
<1> QED BY <1>3, <1>4 DEF Begin

\* Generations are deleted.
LEMMA DeleteStep ==
  ASSUME ProjectionTyped, NEW doomed \in SUBSET Generations, Delete(doomed)
  PROVE  /\ gens' = [n \in Generations |-> gens'[n]] /\ \A n \in Generations : GenerationRow(gens'[n])
         /\ index' \in [Generations -> Contents \cup {Missing}]
         /\ Active' = Active \ doomed /\ \A m, n \in Active' : m = n
         /\ \A n \in Generations \ doomed : index'[n] = index[n] /\ gens'[n] = gens[n]
         /\ \A n \in doomed : gens'[n].status = "NONE"
<1>1. /\ \A n \in Generations : GenerationRow(gens[n])
      /\ index \in [Generations -> Contents \cup {Missing}] /\ \A m, n \in Active : m = n
  BY DEF ProjectionTyped
<1>2. GenerationRow(NoGeneration) /\ NoGeneration.status = "NONE"
  BY DEF GenerationRow, NoGeneration, GenerationStatus
<1>3. gens' = [n \in Generations |-> IF n \in doomed THEN NoGeneration ELSE gens[n]]
  BY DEF Delete
<1>4. index' = [n \in Generations |-> IF n \in doomed THEN Missing ELSE index[n]]
  BY DEF Delete
<1>5. \A n \in Generations : gens'[n] = (IF n \in doomed THEN NoGeneration ELSE gens[n])
  BY <1>3
<1>6. \A n \in Generations : GenerationRow(gens'[n])
  BY <1>1, <1>2, <1>5
<1>7. Active' = Active \ doomed
  BY <1>2, <1>5 DEF Active
<1>8. index' \in [Generations -> Contents \cup {Missing}]
  BY <1>1, <1>4
<1>9. \A n \in Generations \ doomed : index'[n] = index[n] /\ gens'[n] = gens[n]
  BY <1>4, <1>5
<1>10. gens' = [n \in Generations |-> gens'[n]]
  BY <1>3
<1> QED BY <1>1, <1>2, <1>5, <1>6, <1>7, <1>8, <1>9, <1>10

\* The step after ensure.
LEMMA WorkIs ==
  ASSUME NEW t \in TaskIds
  PROVE  /\ Work(t) \in {"relock", "read", "complete"} /\ Work(t) \in ProgramCounters
         /\ IsBatch(t) => Work(t) = "relock"
         /\ ~IsBatch(t) => Work(t) = IF ops[tasks[t].op].kind = "DOCUMENT_UPSERT" THEN "read" ELSE "complete"
BY DEF Work, IsBatch, ProgramCounters, Placed, Projecting

\* A task goes on with another generation, or with another list of indexes to delete.
LEMMA TurnStep ==
  ASSUME ProjectionTyped, NEW t \in TaskIds, NEW pc \in ProgramCounters, NEW n \in Generations,
         tasks' = [tasks EXCEPT ![t].pc = pc, ![t].gen = n]
  PROVE  Moves(t, tasks'[t]) /\ tasks'[t].pc = pc /\ tasks'[t].gen = n
<1> DEFINE row == [tasks[t] EXCEPT !.pc = pc, !.gen = n]
<1>1. n \in 0..MaxIndexes
  BY Values DEF Generations
<1>2. row \in TaskRows /\ row.op = tasks[t].op /\ row.batch = tasks[t].batch /\ row.pc = pc /\ row.gen = n
  BY <1>1, TaskRow DEF TaskRows
<1>3. tasks' = [tasks EXCEPT ![t] = row]
  BY TaskRow
<1> HIDE DEF row
<1> QED BY <1>2, <1>3, RowReplaced

LEMMA DoomStep ==
  ASSUME ProjectionTyped, NEW t \in TaskIds, NEW pc \in ProgramCounters, NEW doomed \in SUBSET Generations,
         tasks[t].pc \in Placed, tasks' = [tasks EXCEPT ![t].pc = pc, ![t].doomed = doomed]
  PROVE  /\ Moves(t, tasks'[t]) /\ tasks'[t].pc = pc /\ tasks'[t].gen = tasks[t].gen
         /\ tasks'[t].doomed = doomed
<1> DEFINE row == [tasks[t] EXCEPT !.pc = pc, !.doomed = doomed]
<1>1. /\ row \in TaskRows /\ row.op = tasks[t].op /\ row.batch = tasks[t].batch /\ row.pc = pc
      /\ row.gen = tasks[t].gen /\ row.doomed = doomed
  BY TaskRow DEF TaskRows
<1>2. tasks' = [tasks EXCEPT ![t] = row]
  BY TaskRow
<1>3. row.gen \in Generations
  BY <1>1, TaskRow
<1> HIDE DEF row
<1> QED BY <1>1, <1>2, <1>3, RowReplaced

LEMMA ReadStep ==
  ASSUME ProjectionTyped, NEW t \in TaskIds, NEW pc \in ProgramCounters, NEW content \in Contents,
         tasks[t].pc \in Placed, tasks' = [tasks EXCEPT ![t].pc = pc, ![t].read = content]
  PROVE  /\ Moves(t, tasks'[t]) /\ tasks'[t].pc = pc /\ tasks'[t].gen = tasks[t].gen
         /\ tasks'[t].read = content
<1> DEFINE row == [tasks[t] EXCEPT !.pc = pc, !.read = content]
<1>1. /\ row \in TaskRows /\ row.op = tasks[t].op /\ row.batch = tasks[t].batch /\ row.pc = pc
      /\ row.gen = tasks[t].gen /\ row.read = content
  BY TaskRow DEF TaskRows
<1>2. tasks' = [tasks EXCEPT ![t] = row]
  BY TaskRow
<1>3. row.gen \in Generations
  BY <1>1, TaskRow
<1> HIDE DEF row
<1> QED BY <1>1, <1>2, <1>3, RowReplaced

LEMMA ActiveIs ==
  ASSUME ProjectionTyped, NEW n \in Active
  PROVE  n \in Generations /\ Active = {n}
BY DEF ProjectionTyped, Active

LEMMA EnsureCurrentStep ==
  ASSUME ProjectionTyped, NEW t \in TaskIds, NEW n \in Active, At(t, "ensure"), EnsureCurrent(t, n)
  PROVE  /\ Stepped(t) /\ Active' = Active /\ ~Forced(t)
         /\ \/ /\ UNCHANGED <<gens, index, alias>> /\ Statuses(t, "FAILED")
               /\ tasks'[t].pc \in {"begin", "error"}
            \/ /\ UNCHANGED ops /\ tasks'[t].pc = Work(t) /\ tasks'[t].gen = n
               /\ alias' = {n} /\ (alias = {n} \/ Exists(n)) /\ index'[n] = index[n]
<1>1. UNCHANGED <<documents, version>> /\ ~Forced(t)
  BY DEF EnsureCurrent, databaseVars
<1>2. n \in Generations /\ Active = {n}
  BY ActiveIs
<1>3. CASE Fail(t) /\ UNCHANGED <<index, alias, gens, faults>>
  <2>1. Stepped(t) /\ Active' = Active
    BY <1>1, <1>3, FailStep, SteppedInPlace
  <2> QED BY <1>1, <1>3, <2>1, FailStep
<1>4. CASE /\ alias' = Repaired(n) /\ (alias = {n} \/ Exists(n))
           /\ tasks' = [tasks EXCEPT ![t].pc = Work(t), ![t].gen = n]
           /\ UNCHANGED <<ops, batch>>
           /\ Delete(Obsolete(n)) \/ UNCHANGED <<index, gens>>
  <2>1. Moves(t, tasks'[t]) /\ tasks'[t].pc = Work(t) /\ tasks'[t].gen = n
    BY <1>2, <1>4, TurnStep, WorkIs
  <2>2. alias' = {n} /\ alias' \subseteq Generations
    BY <1>2, <1>4 DEF Repaired
  <2>3. /\ gens' = [m \in Generations |-> gens'[m]] /\ \A m \in Generations : GenerationRow(gens'[m])
        /\ index' \in [Generations -> Contents \cup {Missing}]
        /\ Active' = Active /\ index'[n] = index[n]
    <3>1. CASE Delete(Obsolete(n))
      <4>1. Obsolete(n) \in SUBSET Generations /\ n \notin Obsolete(n)
        BY DEF Obsolete
      <4> HIDE DEF Obsolete
      <4> QED BY <1>2, <3>1, <4>1, DeleteStep
    <3>2. CASE UNCHANGED <<index, gens>>
      BY <3>2 DEF ProjectionTyped, Active
    <3> QED BY <1>4, <3>1, <3>2
  <2>4. \A k, m \in Active' : k = m
    BY <1>2, <2>3
  <2>5. KeepsOperations /\ DOMAIN ops' = DOMAIN ops /\ batch' \in [Batches -> ProjectedBatches]
    BY <1>4, OperationsKept, BatchesKept
  <2>6. ProjectionTyped'
    BY <1>1, <2>1, <2>2, <2>3, <2>4, <2>5, TypedAfter
  <2> QED BY <1>1, <1>4, <2>1, <2>2, <2>3, <2>5, <2>6 DEF Stepped
<1>5. UNCHANGED <<ops, batch>> \/ Fail(t)
  BY DEF EnsureCurrent
<1> QED BY <1>3, <1>4 DEF EnsureCurrent

LEMMA EnsureInPlaceStep ==
  ASSUME ProjectionTyped, NEW t \in TaskIds, NEW n \in Active, At(t, "ensure"), EnsureInPlace(t, n)
  PROVE  /\ Stepped(t) /\ Active' = Active /\ ~Forced(t) /\ UNCHANGED <<index, alias>>
         /\ \A m \in Generations : gens'[m].status = gens[m].status
         /\ \/ tasks'[t].pc \in {"begin", "error"} /\ Statuses(t, "FAILED")
            \/ tasks'[t].pc = "list" /\ tasks'[t].gen = n /\ UNCHANGED ops
<1>1. UNCHANGED <<documents, version, index, alias>> /\ ~Forced(t)
  BY DEF EnsureInPlace, databaseVars
<1>2. n \in Generations /\ Active = {n}
  BY ActiveIs
<1>3. CASE Fail(t) /\ UNCHANGED gens
  <2>1. Stepped(t) /\ Active' = Active
    BY <1>1, <1>3, FailStep, SteppedInPlace
  <2> QED BY <1>1, <1>3, <2>1, FailStep
<1>4. CASE /\ gens' = [gens EXCEPT ![n].schema = MappingUpdate(@, schema)]
           /\ tasks' = [tasks EXCEPT ![t].pc = "list", ![t].gen = n]
           /\ UNCHANGED <<ops, batch>>
  <2>1. "list" \in ProgramCounters
    BY DEF ProgramCounters, Placed, Projecting, Tidying
  <2>2. Moves(t, tasks'[t]) /\ tasks'[t].pc = "list" /\ tasks'[t].gen = n
    BY <1>2, <1>4, <2>1, TurnStep
  <2>3. gens = [m \in Generations |-> gens[m]] /\ \A m \in Generations : GenerationRow(gens[m])
    BY DEF ProjectionTyped
  <2> DEFINE row == [gens[n] EXCEPT !.schema = MappingUpdate(gens[n].schema, schema)]
  <2>4. GenerationRow(row) /\ row.status = gens[n].status
    <3>1. gens[n] = [status |-> gens[n].status, schema |-> gens[n].schema]
          /\ gens[n].status \in GenerationStatus
      BY <1>2, <2>3 DEF GenerationRow
    <3>2. row = [status |-> gens[n].status, schema |-> MappingUpdate(gens[n].schema, schema)]
      BY <3>1
    <3> HIDE DEF row
    <3> QED BY <3>1, <3>2 DEF GenerationRow
  <2>5. gens' = [gens EXCEPT ![n] = row]
    BY <1>4
  <2> HIDE DEF row
  <2>6. \A m \in Generations : gens'[m] = IF m = n THEN row ELSE gens[m]
    BY <1>2, <2>3, <2>5
  <2>7. gens' = [m \in Generations |-> gens'[m]]
    BY <2>3, <2>5
  <2>8. \A m \in Generations : GenerationRow(gens'[m]) /\ gens'[m].status = gens[m].status
    BY <2>3, <2>4, <2>6
  <2>9. Active' = Active /\ \A k, m \in Active' : k = m
    BY <1>2, <2>8 DEF Active
  <2>10. /\ index' \in [Generations -> Contents \cup {Missing}] /\ alias' \subseteq Generations
         /\ batch' \in [Batches -> ProjectedBatches]
    BY <1>1, <1>4, BatchesKept DEF ProjectionTyped
  <2>11. KeepsOperations /\ DOMAIN ops' = DOMAIN ops
    BY <1>4, OperationsKept
  <2>12. ProjectionTyped'
    BY <1>1, <2>2, <2>7, <2>8, <2>9, <2>10, <2>11, TypedAfter
  <2> QED BY <1>1, <1>4, <2>2, <2>8, <2>9, <2>11, <2>12 DEF Stepped
<1> QED BY <1>3, <1>4 DEF EnsureInPlace

LEMMA EnsureRefusesStep ==
  ASSUME ProjectionTyped, NEW t \in TaskIds, NEW n \in Active, At(t, "ensure"), EnsureRefuses(t, n)
  PROVE  /\ Stepped(t) /\ Active' = Active /\ ~Forced(t) /\ UNCHANGED <<gens, index, alias>>
         /\ \/ tasks'[t].pc \in {"begin", "error"} /\ Statuses(t, "FAILED")
            \/ tasks'[t].pc = "done" /\ Statuses(t, "AWAITING_USER")
<1>1. UNCHANGED <<documents, version, gens, index, alias>> /\ ~Forced(t)
  BY DEF EnsureRefuses, databaseVars
<1>2. CASE Fail(t)
  <2>1. Stepped(t) /\ Active' = Active
    BY <1>1, <1>2, FailStep, SteppedInPlace
  <2> QED BY <1>1, <1>2, <2>1, FailStep
<1>3. CASE SetOperation(t, "AWAITING_USER") /\ Finish(t) /\ UNCHANGED batch
  <2>1. "AWAITING_USER" \in OperationStatus
    BY DEF OperationStatus
  <2>2. KeepsOperations /\ DOMAIN ops' = DOMAIN ops /\ Statuses(t, "AWAITING_USER")
    BY <1>3, <2>1, OperationSet DEF Statuses
  <2>3. Stepped(t) /\ Active' = Active
    BY <1>1, <1>3, <2>2, FinishStep, BatchesKept, SteppedInPlace
  <2> QED BY <1>1, <1>3, <2>2, <2>3, FinishStep
<1> QED BY <1>2, <1>3 DEF EnsureRefuses

\* The next generation is a number of none: no row, no index.
LEMMA NextGenerationIsFree ==
  ASSUME ProjectionTyped, NextGeneration # 0
  PROVE  /\ NextGeneration \in Generations /\ gens[NextGeneration].status = "NONE"
         /\ ~Exists(NextGeneration)
<1> DEFINE latest == {n \in Generations : gens[n].status # "NONE"}
           free == {n \in Generations : ~Exists(n) /\ \A m \in latest : n > m}
           Chosen(n) == (free = {} /\ n = 0) \/ (n \in free /\ \A m \in free : n <= m)
<1>1. free \in SUBSET Nat
  BY Values DEF Generations
<1>2. \E n \in free \cup {0} : Chosen(n)
  <2>1. CASE free = {}
    BY <2>1
  <2>2. CASE free # {}
    <3> HIDE DEF free
    <3>1. PICK n \in free : \A m \in free : n <= m
      BY <1>1, <2>2, LeastNumber
    <3> QED BY <3>1
  <2> QED BY <2>1, <2>2
<1>3. NextGeneration = CHOOSE n \in free \cup {0} : Chosen(n)
  BY DEF NextGeneration
<1>4. Chosen(NextGeneration)
  <2> HIDE DEF Chosen, free
  <2> QED BY <1>2, <1>3
<1>5. NextGeneration \in free
  BY <1>4
<1>6. \A m \in latest : NextGeneration > m
  BY <1>5
<1>7. NextGeneration \notin latest
  <2>1. NextGeneration \in Nat
    BY <1>1, <1>5
  <2> HIDE DEF latest
  <2> QED BY <1>6, <2>1
<1> QED BY <1>5, <1>7

LEMMA EnsureCreatesStep ==
  ASSUME ProjectionTyped, NEW t \in TaskIds, At(t, "ensure"), EnsureCreates(t)
  PROVE  /\ Stepped(t) /\ Active' = Active /\ (Active = {} \/ Forced(t)) /\ UNCHANGED <<gens, alias, ops>>
         /\ tasks'[t].pc = "fill" /\ gens[tasks'[t].gen].status = "NONE"
         /\ ~Exists(tasks'[t].gen) /\ \A n \in Generations : n # tasks'[t].gen => index'[n] = index[n]
<1> DEFINE n == NextGeneration
<1>1. /\ UNCHANGED <<documents, version, gens, alias, ops, batch>> /\ (Active = {} \/ Forced(t))
      /\ n # 0 /\ index' = [index EXCEPT ![n] = EmptyIndex]
      /\ tasks' = [tasks EXCEPT ![t].pc = "fill", ![t].gen = n]
  BY DEF EnsureCreates, databaseVars
<1>2. n \in Generations /\ gens[n].status = "NONE" /\ ~Exists(n)
  BY <1>1, NextGenerationIsFree
<1> HIDE DEF n
<1>3. "fill" \in ProgramCounters
  BY DEF ProgramCounters, Placed, Building
<1>4. Moves(t, tasks'[t]) /\ tasks'[t].pc = "fill" /\ tasks'[t].gen = n
  BY <1>1, <1>2, <1>3, TurnStep
<1>5. index \in [Generations -> Contents \cup {Missing}] /\ EmptyIndex \in Contents
  BY Values DEF ProjectionTyped
<1>6. /\ index' \in [Generations -> Contents \cup {Missing}]
      /\ \A m \in Generations : m # n => index'[m] = index[m]
  BY <1>1, <1>2, <1>5
<1>7. /\ gens' = [m \in Generations |-> gens'[m]] /\ \A m \in Generations : GenerationRow(gens'[m])
      /\ alias' \subseteq Generations /\ batch' \in [Batches -> ProjectedBatches] /\ Active' = Active
      /\ \A k, m \in Active' : k = m
  BY <1>1 DEF ProjectionTyped, Active
<1>8. KeepsOperations /\ DOMAIN ops' = DOMAIN ops
  BY <1>1, OperationsKept
<1>9. ProjectionTyped'
  BY <1>1, <1>4, <1>6, <1>7, <1>8, TypedAfter
<1> QED BY <1>1, <1>2, <1>4, <1>6, <1>7, <1>8, <1>9 DEF Stepped

\* Every index keeps what it holds.
Grown == \A n \in Generations : /\ Exists(n) => Exists(n)'
                                /\ \A d \in MatterDocs : Held(n, d) => Held(n, d)'

LEMMA ProjectionHolds ==
  ASSUME ProjectionTyped, NEW docs
  PROVE  /\ Projection(docs) \in Contents
         /\ \A d \in MatterDocs : (d \in docs /\ version[d] > 0) => Projection(docs)[d].version > 0
<1>1. \A d \in MatterDocs : Memberships(d) \in SUBSET Batches /\ version[d] \in Nat
  BY DEF Memberships, ProjectionTyped
<1>2. Absent \in Entries
  BY Values
<1>3. ASSUME NEW d \in MatterDocs, d \in docs, version[d] > 0
      PROVE  [version |-> version[d], batches |-> Memberships(d)] \in Entries
  BY <1>1, <1>3 DEF Entries
<1>4. Projection(docs) \in Contents
  BY <1>2, <1>3 DEF Projection, Contents
<1>5. \A d \in MatterDocs : (d \in docs /\ version[d] > 0) => Projection(docs)[d].version > 0
  BY DEF Projection
<1> QED BY <1>4, <1>5

LEMMA WriteStep ==
  ASSUME ProjectionTyped, NEW n \in Generations, NEW read \in Contents, Write(n, read)
  PROVE  /\ index' \in [Generations -> Contents \cup {Missing}] /\ Grown /\ Exists(n)'
         /\ \A m \in Generations : m # n => index'[m] = index[m]
         /\ \A d \in MatterDocs : read[d].version > 0 => Held(n, d)'
<1> DEFINE row == [d \in MatterDocs |-> IF read[d] # Absent THEN read[d]
                                        ELSE IF Exists(n) THEN index[n][d] ELSE Absent]
<1>1. index \in [Generations -> Contents \cup {Missing}] /\ Absent \in Entries /\ Absent.version = 0
      /\ Missing \notin Contents
  BY Values DEF ProjectionTyped, Absent
<1>2. Exists(n) => index[n] \in Contents
  BY <1>1 DEF Exists
<1>3. row \in Contents
  BY <1>1, <1>2 DEF Contents
<1>4. index' = [index EXCEPT ![n] = row]
  BY DEF Write
<1>5. \A d \in MatterDocs : row[d] = IF read[d] # Absent THEN read[d]
                                     ELSE IF Exists(n) THEN index[n][d] ELSE Absent
  OBVIOUS
<1>6. \A d \in MatterDocs : read[d] = Absent \/ read[d].version > 0
  BY DEF Contents, Entries
<1> HIDE DEF row
<1>7. /\ index' \in [Generations -> Contents \cup {Missing}] /\ index'[n] = row
      /\ \A m \in Generations : m # n => index'[m] = index[m]
  BY <1>1, <1>3, <1>4
<1>8. Exists(n)'
  BY <1>1, <1>3, <1>7 DEF Exists, Missing, Absent
<1>9. \A d \in MatterDocs : (read[d].version > 0 \/ Held(n, d)) => Held(n, d)'
  BY <1>1, <1>5, <1>6, <1>7, <1>8 DEF Held
<1>10. Grown
  <2>1. ASSUME NEW m \in Generations, m # n
        PROVE  /\ Exists(m) => Exists(m)'
               /\ \A d \in MatterDocs : Held(m, d) => Held(m, d)'
    BY <1>7, <2>1 DEF Exists, Held, Missing, Absent
  <2> QED BY <1>8, <1>9, <2>1 DEF Grown
<1> QED BY <1>7, <1>8, <1>9, <1>10

LEMMA IndexKept ==
  ASSUME UNCHANGED index
  PROVE  Grown
BY DEF Grown, Exists, Held, Missing, Absent

\* The types after a step that changes only what an index holds.
LEMMA SteppedWriting ==
  ASSUME ProjectionTyped, NEW t \in TaskIds, Moves(t, tasks'[t]), KeepsOperations,
         DOMAIN ops' = DOMAIN ops, batch' \in [Batches -> ProjectedBatches],
         index' \in [Generations -> Contents \cup {Missing}],
         UNCHANGED <<documents, version, gens, alias>>
  PROVE  Stepped(t) /\ Active' = Active
<1>1. Active' = Active
  BY DEF Active
<1>2. /\ gens' = [n \in Generations |-> gens'[n]] /\ \A n \in Generations : GenerationRow(gens'[n])
      /\ alias' \subseteq Generations /\ \A m, n \in Active' : m = n
  BY <1>1 DEF ProjectionTyped
<1>3. ProjectionTyped'
  BY <1>2, TypedAfter
<1> QED BY <1>1, <1>3 DEF Stepped

LEMMA FillStep ==
  ASSUME ProjectionTyped, NEW t \in TaskIds, Fill(t)
  PROVE  /\ Stepped(t) /\ Active' = Active /\ UNCHANGED <<gens, alias, ops>>
         /\ tasks[t].pc = "fill" /\ tasks'[t].pc = "switch" /\ tasks'[t].gen = tasks[t].gen
         /\ Grown /\ tasks[t].gen \in Generations
         /\ \A n \in Generations, d \in MatterDocs :
               (n = tasks[t].gen /\ d \in ToSet(documents) /\ version[d] > 0) => Held(n, d)'
<1>1. /\ UNCHANGED <<documents, version, gens, alias, ops, batch>> /\ tasks[t].pc = "fill"
      /\ Write(tasks[t].gen, Projection(ToSet(documents))) /\ Goto(t, "switch")
  BY DEF Fill, databaseVars, At
<1>2. tasks[t].gen \in Generations
  BY <1>1, TaskRow DEF Placed, Building
<1>3. "switch" \in ProgramCounters
  BY DEF ProgramCounters, Placed, Building
<1>4. Moves(t, tasks'[t]) /\ tasks'[t].pc = "switch" /\ tasks'[t].gen = tasks[t].gen
  BY <1>1, <1>2, <1>3, GotoStep
<1>5. Projection(ToSet(documents)) \in Contents
  BY ProjectionHolds
<1>6. PICK n \in Generations, read \in Contents :
           n = tasks[t].gen /\ read = Projection(ToSet(documents)) /\ Write(n, read)
  BY <1>1, <1>2, <1>5
<1>9. /\ index' \in [Generations -> Contents \cup {Missing}] /\ Grown
      /\ \A d \in MatterDocs : read[d].version > 0 => Held(n, d)'
  BY <1>6, WriteStep
<1>7. KeepsOperations /\ DOMAIN ops' = DOMAIN ops /\ batch' \in [Batches -> ProjectedBatches]
  BY <1>1, OperationsKept, BatchesKept
<1>8. Stepped(t) /\ Active' = Active
  BY <1>1, <1>4, <1>9, <1>7, SteppedWriting
<1>10. \A d \in MatterDocs : (d \in ToSet(documents) /\ version[d] > 0) => read[d].version > 0
  BY <1>6, ProjectionHolds
<1> QED BY <1>1, <1>2, <1>4, <1>6, <1>8, <1>9, <1>10

LEMMA FailBuildStep ==
  ASSUME ProjectionTyped, NEW t \in TaskIds, FailBuild(t), tasks[t].gen \in Generations,
         UNCHANGED <<documents, version, index, alias>>
  PROVE  /\ Stepped(t) /\ Statuses(t, "FAILED")
         /\ gens[tasks[t].gen].status = "NONE" => Active' = Active
         /\ tasks'[t].pc \in {"begin", "error"}
<1> DEFINE row == [status |-> "FAILED", schema |-> schema]
<1>1. GenerationRow(row) /\ row.status = "FAILED"
  BY DEF GenerationRow, GenerationStatus
<1>2. gens' = [gens EXCEPT ![tasks[t].gen] = row] /\ Fail(t)
  BY DEF FailBuild
<1>3. gens = [m \in Generations |-> gens[m]] /\ \A m \in Generations : GenerationRow(gens[m])
  BY DEF ProjectionTyped
<1> HIDE DEF row
<1>4. \A m \in Generations : gens'[m] = IF m = tasks[t].gen THEN row ELSE gens[m]
  BY <1>2, <1>3
<1>5. gens' = [m \in Generations |-> gens'[m]] /\ \A m \in Generations : GenerationRow(gens'[m])
  BY <1>1, <1>2, <1>3, <1>4
<1>6. Active' \subseteq Active /\ (gens[tasks[t].gen].status = "NONE" => Active' = Active)
  BY <1>1, <1>4 DEF Active
<1>7. /\ index' \in [Generations -> Contents \cup {Missing}] /\ alias' \subseteq Generations
      /\ \A k, m \in Active' : k = m
  BY <1>6 DEF ProjectionTyped
<1>8. /\ Moves(t, tasks'[t]) /\ KeepsOperations /\ DOMAIN ops' = DOMAIN ops
      /\ tasks'[t].pc \in {"begin", "error"} /\ Statuses(t, "FAILED")
      /\ batch' \in [Batches -> ProjectedBatches]
  BY <1>2, FailStep
<1>9. ProjectionTyped'
  BY <1>5, <1>7, <1>8, TypedAfter
<1> QED BY <1>6, <1>8, <1>9 DEF Stepped

LEMMA SwitchStep ==
  ASSUME ProjectionTyped, NEW t \in TaskIds, SwitchAlias(t)
  PROVE  /\ Stepped(t) /\ UNCHANGED index
         /\ gens[tasks[t].gen].status = "NONE" => Active' = Active
         /\ tasks[t].pc = "switch" /\ tasks[t].gen \in Generations
         /\ \/ /\ UNCHANGED <<gens, ops>> /\ alias' = {tasks[t].gen} /\ Exists(tasks[t].gen)
               /\ tasks'[t].pc = "activate" /\ tasks'[t].gen = tasks[t].gen
            \/ UNCHANGED alias /\ Statuses(t, "FAILED") /\ tasks'[t].pc \in {"begin", "error"}
<1>1. UNCHANGED <<documents, version, index>> /\ tasks[t].pc = "switch"
  BY DEF SwitchAlias, databaseVars, At
<1>2. tasks[t].gen \in Generations
  BY <1>1, TaskRow DEF Placed, Building
<1>3. CASE FailBuild(t) /\ UNCHANGED alias
  BY <1>1, <1>2, <1>3, FailBuildStep
<1>4. CASE /\ Exists(tasks[t].gen) /\ alias' = {tasks[t].gen} /\ Goto(t, "activate")
           /\ UNCHANGED <<gens, ops, batch>>
  <2>1. "activate" \in ProgramCounters
    BY DEF ProgramCounters, Placed, Building
  <2>2. Moves(t, tasks'[t]) /\ tasks'[t].pc = "activate" /\ tasks'[t].gen = tasks[t].gen
    BY <1>2, <1>4, <2>1, GotoStep
  <2>3. KeepsOperations /\ DOMAIN ops' = DOMAIN ops /\ batch' \in [Batches -> ProjectedBatches]
    BY <1>4, OperationsKept, BatchesKept
  <2>4. /\ gens' = [m \in Generations |-> gens'[m]] /\ \A m \in Generations : GenerationRow(gens'[m])
        /\ index' \in [Generations -> Contents \cup {Missing}] /\ alias' \subseteq Generations
        /\ Active' = Active /\ \A k, m \in Active' : k = m
    <3>1. Active' = Active /\ alias' \subseteq Generations
      BY <1>2, <1>4 DEF Active
    <3> QED BY <1>1, <1>4, <3>1 DEF ProjectionTyped
  <2>5. ProjectionTyped'
    BY <1>1, <2>2, <2>3, <2>4, TypedAfter
  <2> QED BY <1>1, <1>2, <1>4, <2>2, <2>3, <2>4, <2>5 DEF Stepped
<1> QED BY <1>3, <1>4 DEF SwitchAlias

LEMMA ActivateStep ==
  ASSUME ProjectionTyped, NEW t \in TaskIds, Activate(t)
  PROVE  /\ Stepped(t) /\ Active' = {tasks[t].gen} /\ UNCHANGED <<index, alias, ops>>
         /\ tasks[t].pc = "activate" /\ tasks[t].gen \in Generations
         /\ tasks'[t].pc = "list" /\ tasks'[t].gen = tasks[t].gen
<1>1. /\ UNCHANGED <<documents, version, index, alias, ops, batch>> /\ tasks[t].pc = "activate"
      /\ Goto(t, "list")
  BY DEF Activate, databaseVars, At
<1>2. tasks[t].gen \in Generations
  BY <1>1, TaskRow DEF Placed, Building
<1>3. "list" \in ProgramCounters
  BY DEF ProgramCounters, Placed, Projecting, Tidying
<1>4. Moves(t, tasks'[t]) /\ tasks'[t].pc = "list" /\ tasks'[t].gen = tasks[t].gen
  BY <1>1, <1>2, <1>3, GotoStep
<1>5. gens' = [n \in Generations |-> IF n = tasks[t].gen THEN [status |-> "ACTIVE", schema |-> schema]
                                     ELSE IF n \in Active THEN Retired(gens[n]) ELSE gens[n]]
  BY DEF Activate
<1>6. \A n \in Generations : gens'[n] = IF n = tasks[t].gen THEN [status |-> "ACTIVE", schema |-> schema]
                                     ELSE IF n \in Active THEN Retired(gens[n]) ELSE gens[n]
  BY <1>5
<1>7. \A n \in Generations : GenerationRow(gens[n])
  BY DEF ProjectionTyped
<1>8. GenerationRow([status |-> "ACTIVE", schema |-> schema])
  BY DEF GenerationRow, GenerationStatus
<1>9. ASSUME NEW n \in Generations
      PROVE  GenerationRow(Retired(gens[n])) /\ Retired(gens[n]).status = "RETIRED"
  <2>1. gens[n] = [status |-> gens[n].status, schema |-> gens[n].schema]
    BY <1>7 DEF GenerationRow
  <2>2. Retired(gens[n]) = [status |-> "RETIRED", schema |-> gens[n].schema]
    BY <2>1 DEF Retired
  <2> QED BY <2>2 DEF GenerationRow, GenerationStatus
<1>10. \A n \in Generations : GenerationRow(gens'[n])
  BY <1>6, <1>7, <1>8, <1>9
<1>11. Active' = {tasks[t].gen}
  BY <1>2, <1>6, <1>9 DEF Active
<1>12. /\ gens' = [n \in Generations |-> gens'[n]] /\ alias' \subseteq Generations
       /\ index' \in [Generations -> Contents \cup {Missing}] /\ \A m, n \in Active' : m = n
  BY <1>1, <1>5, <1>11 DEF ProjectionTyped
<1>13. KeepsOperations /\ DOMAIN ops' = DOMAIN ops /\ batch' \in [Batches -> ProjectedBatches]
  BY <1>1, OperationsKept, BatchesKept
<1>14. ProjectionTyped'
  BY <1>1, <1>4, <1>10, <1>12, <1>13, TypedAfter
<1> QED BY <1>1, <1>2, <1>4, <1>11, <1>13, <1>14 DEF Stepped

LEMMA ListStep ==
  ASSUME ProjectionTyped, NEW t \in TaskIds, ListObsolete(t)
  PROVE  /\ Stepped(t) /\ Active' = Active /\ UNCHANGED <<gens, index, alias, ops>>
         /\ tasks[t].pc = "list" /\ tasks[t].gen \in Generations
         /\ tasks'[t].pc = "tidy" /\ tasks'[t].gen = tasks[t].gen
         /\ tasks[t].gen \notin tasks'[t].doomed
<1>1. /\ UNCHANGED <<documents, version, gens, index, alias, ops, batch>> /\ tasks[t].pc = "list"
      /\ tasks' = [tasks EXCEPT ![t].pc = "tidy", ![t].doomed = Obsolete(tasks[t].gen)]
  BY DEF ListObsolete, databaseVars, At
<1>2. tasks[t].pc \in Placed
  BY <1>1 DEF Placed, Projecting, Tidying
<1>3. "tidy" \in ProgramCounters
  BY DEF ProgramCounters, Placed, Projecting, Tidying
<1>4. Obsolete(tasks[t].gen) \in SUBSET Generations /\ tasks[t].gen \notin Obsolete(tasks[t].gen)
  BY DEF Obsolete
<1>5. /\ Moves(t, tasks'[t]) /\ tasks'[t].pc = "tidy" /\ tasks'[t].gen = tasks[t].gen
      /\ tasks'[t].doomed = Obsolete(tasks[t].gen)
  BY <1>1, <1>2, <1>3, <1>4, DoomStep
<1>6. Stepped(t) /\ Active' = Active
  BY <1>1, <1>5, OperationsKept, BatchesKept, SteppedInPlace
<1> QED BY <1>1, <1>2, <1>4, <1>5, <1>6, TaskRow

\* A cleanup goes on to the work of its task.
LEMMA TidiedStep ==
  ASSUME ProjectionTyped, NEW t \in TaskIds, tasks[t].pc = "tidy",
         tasks' = [tasks EXCEPT ![t].pc = Work(t), ![t].doomed = {}]
  PROVE  Moves(t, tasks'[t]) /\ tasks'[t].pc = Work(t) /\ tasks'[t].gen = tasks[t].gen
<1>1. tasks[t].pc \in Placed
  BY DEF Placed, Projecting, Tidying
<1>2. {} \in SUBSET Generations
  OBVIOUS
<1> QED BY <1>1, <1>2, WorkIs, DoomStep

LEMMA TidyStep ==
  ASSUME ProjectionTyped, NEW t \in TaskIds, Tidy(t)
  PROVE  /\ Stepped(t) /\ UNCHANGED ops
         /\ tasks[t].pc = "tidy" /\ tasks'[t].pc = Work(t) /\ tasks'[t].gen = tasks[t].gen
         /\ Active' = Active \ tasks[t].doomed /\ alias' = alias \ tasks[t].doomed
         /\ \A n \in Generations \ tasks[t].doomed : index'[n] = index[n]
<1>1. /\ UNCHANGED <<documents, version, ops, batch>> /\ tasks[t].pc = "tidy"
      /\ Delete(tasks[t].doomed) /\ alias' = alias \ tasks[t].doomed
      /\ tasks' = [tasks EXCEPT ![t].pc = Work(t), ![t].doomed = {}]
  BY DEF Tidy, databaseVars, At
<1>2. tasks[t].doomed \in SUBSET Generations
  BY TaskRow DEF TaskRows
<1>3. Moves(t, tasks'[t]) /\ tasks'[t].pc = Work(t) /\ tasks'[t].gen = tasks[t].gen
  BY <1>1, TidiedStep
<1>4. /\ gens' = [n \in Generations |-> gens'[n]] /\ \A n \in Generations : GenerationRow(gens'[n])
      /\ index' \in [Generations -> Contents \cup {Missing}]
      /\ Active' = Active \ tasks[t].doomed /\ \A m, n \in Active' : m = n
      /\ \A n \in Generations \ tasks[t].doomed : index'[n] = index[n]
  BY <1>1, <1>2, DeleteStep
<1>5. /\ alias' \subseteq Generations /\ KeepsOperations /\ DOMAIN ops' = DOMAIN ops
      /\ batch' \in [Batches -> ProjectedBatches]
  BY <1>1, OperationsKept, BatchesKept DEF ProjectionTyped
<1>6. ProjectionTyped'
  BY <1>1, <1>3, <1>4, <1>5, TypedAfter
<1> QED BY <1>1, <1>3, <1>4, <1>5, <1>6 DEF Stepped

LEMMA TidyFailsStep ==
  ASSUME ProjectionTyped, NEW t \in TaskIds, TidyFails(t)
  PROVE  /\ Stepped(t) /\ Active' = Active /\ UNCHANGED <<gens, index, alias, ops>>
         /\ tasks[t].pc = "tidy" /\ tasks'[t].pc = Work(t) /\ tasks'[t].gen = tasks[t].gen
<1>1. /\ UNCHANGED <<documents, version, gens, index, alias, ops, batch>> /\ tasks[t].pc = "tidy"
      /\ tasks' = [tasks EXCEPT ![t].pc = Work(t), ![t].doomed = {}]
  BY DEF TidyFails, databaseVars, At
<1>2. Moves(t, tasks'[t]) /\ tasks'[t].pc = Work(t) /\ tasks'[t].gen = tasks[t].gen
  BY <1>1, TidiedStep
<1>3. Stepped(t) /\ Active' = Active
  BY <1>1, <1>2, OperationsKept, BatchesKept, SteppedInPlace
<1> QED BY <1>1, <1>2, <1>3

LEMMA ReadDocumentsStep ==
  ASSUME ProjectionTyped, NEW t \in TaskIds, ReadDocuments(t)
  PROVE  /\ Stepped(t) /\ Active' = Active /\ UNCHANGED <<gens, index, alias, ops>>
         /\ tasks[t].pc = "read" /\ tasks'[t].pc = "write" /\ tasks'[t].gen = tasks[t].gen
         /\ \A d \in MatterDocs : (d \in ops[tasks[t].op].docs /\ version[d] > 0)
                                  => tasks'[t].read[d].version > 0
<1>1. /\ UNCHANGED <<documents, version, gens, index, alias, ops, batch>> /\ tasks[t].pc = "read"
      /\ tasks' = [tasks EXCEPT ![t].pc = "write", ![t].read = Projection(ops[tasks[t].op].docs)]
  BY DEF ReadDocuments, databaseVars, At
<1>2. tasks[t].pc \in Placed
  BY <1>1 DEF Placed, Projecting
<1>3. "write" \in ProgramCounters
  BY DEF ProgramCounters, Placed, Projecting
<1>4. PICK content \in Contents : content = Projection(ops[tasks[t].op].docs)
  BY ProjectionHolds
<1>5. /\ Moves(t, tasks'[t]) /\ tasks'[t].pc = "write" /\ tasks'[t].gen = tasks[t].gen
      /\ tasks'[t].read = content
  <2>1. tasks' = [tasks EXCEPT ![t].pc = "write", ![t].read = content]
    BY <1>1, <1>4
  <2> DEFINE row == [tasks[t] EXCEPT !.pc = "write", !.read = content]
  <2>2. /\ row \in TaskRows /\ row.op = tasks[t].op /\ row.batch = tasks[t].batch /\ row.pc = "write"
        /\ row.gen = tasks[t].gen /\ row.read = content
    BY <1>3, <1>4, TaskRow DEF TaskRows
  <2>3. tasks' = [tasks EXCEPT ![t] = row]
    BY <2>1, TaskRow
  <2>4. row.gen \in Generations
    BY <1>2, <2>2, TaskRow
  <2> HIDE DEF row
  <2> QED BY <2>2, <2>3, <2>4, RowReplaced
<1>6. Stepped(t) /\ Active' = Active
  BY <1>1, <1>5, OperationsKept, BatchesKept, SteppedInPlace
<1>7. \A d \in MatterDocs : (d \in ops[tasks[t].op].docs /\ version[d] > 0) => content[d].version > 0
  BY <1>4, ProjectionHolds
<1> QED BY <1>1, <1>5, <1>6, <1>7

LEMMA WriteDocumentsStep ==
  ASSUME ProjectionTyped, NEW t \in TaskIds, WriteDocuments(t)
  PROVE  /\ Stepped(t) /\ Active' = Active /\ UNCHANGED <<gens, alias, ops>>
         /\ tasks[t].pc = "write" /\ tasks'[t].pc \in {"complete", "begin", "error"}
         /\ Grown /\ \A n \in Generations, d \in MatterDocs :
               (n = tasks[t].gen /\ tasks[t].read[d].version > 0) => Held(n, d)'
<1>1. /\ UNCHANGED <<documents, version, gens, alias, ops, batch>> /\ tasks[t].pc = "write"
      /\ Write(tasks[t].gen, tasks[t].read)
  BY DEF WriteDocuments, databaseVars, At
<1>2. tasks[t].pc \in Placed
  BY <1>1 DEF Placed, Projecting
<1>3. PICK n \in Generations, read \in Contents :
           n = tasks[t].gen /\ read = tasks[t].read /\ Write(n, read)
  BY <1>1, <1>2, TaskRow DEF TaskRows
<1>4. /\ index' \in [Generations -> Contents \cup {Missing}] /\ Grown
      /\ \A d \in MatterDocs : read[d].version > 0 => Held(n, d)'
  BY <1>3, WriteStep
<1>5. Moves(t, tasks'[t]) /\ tasks'[t].pc \in {"complete", "begin", "error"}
  <2>1. CASE tasks' = [tasks EXCEPT ![t].pc = "complete", ![t].read = EmptyIndex]
    <3>1. "complete" \in ProgramCounters /\ EmptyIndex \in Contents
      BY Values DEF ProgramCounters, Placed, Projecting
    <3> HIDE DEF EmptyIndex
    <3> QED BY <1>2, <2>1, <3>1, ReadStep
  <2>2. CASE tasks' = [tasks EXCEPT ![t] = FailedTask(t)]
    BY <2>2, FailedTaskStep
  <2> QED BY <2>1, <2>2 DEF WriteDocuments
<1>6. Stepped(t) /\ Active' = Active
  BY <1>1, <1>4, <1>5, OperationsKept, BatchesKept, SteppedWriting
<1> QED BY <1>1, <1>3, <1>4, <1>5, <1>6

LEMMA CompleteStep ==
  ASSUME ProjectionTyped, NEW t \in TaskIds, Complete(t)
  PROVE  /\ Stepped(t) /\ Active' = Active /\ UNCHANGED <<gens, index, alias>>
         /\ tasks[t].pc = "complete" /\ tasks'[t].pc = "done" /\ Statuses(t, "COMPLETED")
<1>1. /\ UNCHANGED <<documents, version, gens, index, alias, batch>> /\ tasks[t].pc = "complete"
      /\ SetOperation(t, "COMPLETED") /\ Finish(t)
  BY DEF Complete, databaseVars, At
<1>2. "COMPLETED" \in OperationStatus
  BY DEF OperationStatus
<1>3. KeepsOperations /\ DOMAIN ops' = DOMAIN ops /\ Statuses(t, "COMPLETED")
  BY <1>1, <1>2, OperationSet DEF Statuses
<1>4. Stepped(t) /\ Active' = Active
  BY <1>1, <1>3, FinishStep, BatchesKept, SteppedInPlace
<1> QED BY <1>1, <1>3, <1>4, FinishStep

LEMMA UpdateMembersStep ==
  ASSUME ProjectionTyped, NEW t \in TaskIds, UpdateMembers(t)
  PROVE  /\ Stepped(t) /\ Active' = Active /\ UNCHANGED <<gens, alias>> /\ Grown
         /\ tasks[t].pc = "relock" /\ LockFree
         /\ \/ tasks'[t].pc = "synced" /\ UNCHANGED ops
            \/ tasks'[t].pc \in {"begin", "error"} /\ Statuses(t, "FAILED")
<1> DEFINE n == tasks[t].gen
           b == tasks[t].batch
           row == Joined(n, b)
<1>1. /\ UNCHANGED <<documents, version, gens, alias>> /\ tasks[t].pc = "relock" /\ LockFree
      /\ index' = IF Exists(n) THEN [index EXCEPT ![n] = row] ELSE index
      /\ \/ Goto(t, "synced") /\ UNCHANGED <<batch, ops>>
         \/ Fail(t)
  <2>1. UNCHANGED <<documents, version, gens, alias>> /\ tasks[t].pc = "relock" /\ LockFree
    BY DEF UpdateMembers, databaseVars, At
  <2>2. (Goto(t, "synced") /\ UNCHANGED <<batch, ops>>) \/ Fail(t)
    BY DEF UpdateMembers
  <2>3. index' = IF Exists(n) THEN [index EXCEPT ![n] = row] ELSE index
    BY DEF UpdateMembers
  <2> QED BY <2>1, <2>2, <2>3
<1>2. n \in Generations /\ b \in Batches \cup {NoBatch}
  BY <1>1, TaskRow DEF Placed, TaskRows
<1>3. index \in [Generations -> Contents \cup {Missing}] /\ Missing \notin Contents
  BY Values DEF ProjectionTyped
<1>4. ASSUME Exists(n)
      PROVE  row \in Contents /\ \A d \in MatterDocs : row[d].version = index[n][d].version
  <2>1. index[n] \in Contents
    BY <1>2, <1>3, <1>4 DEF Exists
  <2>2. ASSUME NEW d \in MatterDocs
        PROVE  row[d] \in Entries /\ row[d].version = index[n][d].version
    <3>1. index[n][d] \in Entries
      BY <2>1 DEF Contents
    <3>2. ASSUME NEW e \in Entries, e # Absent
          PROVE  /\ [e EXCEPT !.batches = @ \cup {b}] \in Entries
                 /\ [e EXCEPT !.batches = @ \cup {b}].version = e.version
      BY <1>2, <3>2 DEF Entries
    <3>3. row[d] = IF d \in HeldMembers(n, b) THEN [index[n][d] EXCEPT !.batches = @ \cup {b}]
                   ELSE index[n][d]
      BY DEF Joined
    <3>4. d \in HeldMembers(n, b) => index[n][d] # Absent
      BY DEF HeldMembers
    <3> HIDE DEF row
    <3> QED BY <3>1, <3>2, <3>3, <3>4
  <2>3. row = [d \in MatterDocs |-> row[d]]
    BY DEF Joined
  <2> HIDE DEF row
  <2> QED BY <2>2, <2>3 DEF Contents
<1> HIDE DEF row
<1>5. index' \in [Generations -> Contents \cup {Missing}]
  BY <1>1, <1>2, <1>3, <1>4
<1>6. /\ \A m \in Generations : m # n => index'[m] = index[m]
      /\ index'[n] = IF Exists(n) THEN row ELSE index[n]
  BY <1>1, <1>2, <1>3
<1>7. Grown
  <2>1. PICK g \in Generations : g = n
    BY <1>2
  <2>2. \A m \in Generations : m # g => index'[m] = index[m]
    BY <1>6, <2>1
  <2>3. Exists(g) => /\ index'[g] \in Contents
                     /\ \A d \in MatterDocs : index'[g][d].version = index[g][d].version
    BY <1>4, <1>6, <2>1
  <2>4. Missing' = Missing
    BY DEF Missing, Absent
  <2> HIDE DEF n
  <2> QED BY <1>3, <2>2, <2>3, <2>4 DEF Grown, Exists, Held
<1>8. "synced" \in ProgramCounters /\ tasks[t].pc \in Placed
  BY <1>1 DEF ProgramCounters, Placed
<1>9. CASE Goto(t, "synced") /\ UNCHANGED <<batch, ops>>
  <2>1. Moves(t, tasks'[t]) /\ tasks'[t].pc = "synced"
    BY <1>2, <1>8, <1>9, GotoStep
  <2>2. KeepsOperations /\ DOMAIN ops' = DOMAIN ops /\ batch' \in [Batches -> ProjectedBatches]
    BY <1>9, OperationsKept, BatchesKept
  <2>3. Stepped(t) /\ Active' = Active
    BY <1>1, <1>5, <2>1, <2>2, SteppedWriting
  <2> QED BY <1>1, <1>7, <1>9, <2>1, <2>3
<1>10. CASE Fail(t)
  <2>1. Stepped(t) /\ Active' = Active
    BY <1>1, <1>5, <1>10, FailStep, SteppedWriting
  <2> QED BY <1>1, <1>7, <1>10, <2>1, FailStep
<1> QED BY <1>1, <1>9, <1>10

LEMMA CommitSyncedStep ==
  ASSUME ProjectionTyped, NEW t \in TaskIds, CommitSynced(t)
  PROVE  /\ Stepped(t) /\ Active' = Active /\ UNCHANGED <<gens, index, alias, ops>>
         /\ tasks[t].pc = "synced" /\ tasks'[t].pc = "done"
<1>1. /\ UNCHANGED <<documents, version, gens, index, alias, ops>> /\ tasks[t].pc = "synced"
      /\ batch' = [batch EXCEPT ![tasks[t].batch].search = "READY", ![tasks[t].batch].build = "done"]
      /\ Finish(t)
  BY DEF CommitSynced, databaseVars, At
<1>2. batch \in [Batches -> ProjectedBatches]
  BY DEF ProjectionTyped
<1>3. \A r \in ProjectedBatches : [r EXCEPT !.search = "READY", !.build = "done"] \in ProjectedBatches
  BY DEF ProjectedBatches, SearchStatus, BuildPC
<1>4. batch' \in [Batches -> ProjectedBatches]
  <2>1. CASE tasks[t].batch \in Batches
    <3> DEFINE row == [batch[tasks[t].batch] EXCEPT !.search = "READY", !.build = "done"]
    <3>1. row \in ProjectedBatches
      BY <1>2, <1>3, <2>1
    <3>2. batch' = [batch EXCEPT ![tasks[t].batch] = row]
      BY <1>1, <1>2, <2>1
    <3> HIDE DEF row
    <3> QED BY <1>2, <3>1, <3>2
  <2>2. CASE tasks[t].batch \notin Batches
    BY <1>1, <1>2, <2>2
  <2> QED BY <2>1, <2>2
<1>5. Stepped(t) /\ Active' = Active
  BY <1>1, <1>4, FinishStep, OperationsKept, SteppedInPlace
<1> QED BY <1>1, <1>5, FinishStep

LEMMA ServiceFailsStep ==
  ASSUME ProjectionTyped, NEW t \in TaskIds, ServiceFails(t)
  PROVE  /\ Stepped(t) /\ UNCHANGED <<index, alias>> /\ Statuses(t, "FAILED")
         /\ (tasks[t].pc \in Building => gens[tasks[t].gen].status = "NONE") => Active' = Active
         /\ tasks[t].pc \in {"ensure", "read", "write", "relock", "fill", "switch"}
         /\ tasks[t].pc \notin Building => UNCHANGED gens
         /\ tasks'[t].pc \in {"begin", "error"}
<1>1. UNCHANGED <<documents, version, index, alias>>
  BY DEF ServiceFails, databaseVars
<1>2. CASE tasks[t].pc \in {"ensure", "read", "write", "relock"} /\ Fail(t) /\ UNCHANGED gens
  <2>1. Stepped(t) /\ Active' = Active
    BY <1>1, <1>2, FailStep, SteppedInPlace
  <2> QED BY <1>1, <1>2, <2>1, FailStep DEF Building
<1>3. CASE tasks[t].pc \in {"fill", "switch"} /\ FailBuild(t)
  <2>1. tasks[t].gen \in Generations /\ tasks[t].pc \in Building
    BY <1>3, TaskRow DEF Placed, Building
  <2> QED BY <1>1, <1>3, <2>1, FailBuildStep
<1> QED BY <1>2, <1>3 DEF ServiceFails

LEMMA CrashStep ==
  ASSUME ProjectionTyped, NEW t \in TaskIds, Crash(t)
  PROVE  /\ Stepped(t) /\ Active' = Active /\ UNCHANGED <<gens, index, alias, ops>>
         /\ tasks[t].pc \notin Ended \cup {"queued", "begin"} /\ tasks'[t].pc = "begin"
<1>1. /\ UNCHANGED <<documents, version, gens, index, alias, ops, batch>>
      /\ tasks[t].pc \notin Ended \cup {"queued", "begin"}
      /\ tasks' = [tasks EXCEPT ![t] = [NewTask(tasks[t].op, tasks[t].batch) EXCEPT
                                          !.pc = "begin", !.attempts = tasks[t].attempts]]
  BY DEF Crash, databaseVars
<1>2. tasks[t].attempts \in Nat
  BY TaskRow DEF TaskRows
<1>3. [NewTask(tasks[t].op, tasks[t].batch) EXCEPT !.pc = "begin", !.attempts = tasks[t].attempts]
        = [NewTask(tasks[t].op, tasks[t].batch) EXCEPT !.attempts = tasks[t].attempts, !.pc = "begin"]
  BY DEF NewTask
<1>4. Moves(t, tasks'[t]) /\ tasks'[t].pc = "begin"
  BY <1>1, <1>2, <1>3, RestartStep
<1>5. Stepped(t) /\ Active' = Active
  BY <1>1, <1>4, OperationsKept, BatchesKept, SteppedInPlace
<1> QED BY <1>1, <1>4, <1>5

LEMMA CleanupScriptStep ==
  ASSUME ProjectionTyped, CleanupScript
  PROVE  /\ ProjectionTyped' /\ UNCHANGED <<documents, version, ops, tasks, alias>>
         /\ LockFree /\ Active' = Active
         /\ \E n \in Active : /\ Active = {n} /\ alias = {n} /\ Exists(n)
                              /\ index'[n] = index[n]
<1>1. UNCHANGED <<documents, version, ops, tasks, alias, batch>> /\ LockFree
  BY DEF CleanupScript, databaseVars
<1>2. PICK n \in Active : alias = {n} /\ Exists(n) /\ Delete(Obsolete(n))
  BY DEF CleanupScript
<1>3. n \in Generations /\ Active = {n}
  BY <1>2, ActiveIs
<1>4. Obsolete(n) \in SUBSET Generations /\ n \notin Obsolete(n)
  BY DEF Obsolete
<1>5. /\ gens' = [m \in Generations |-> gens'[m]] /\ \A m \in Generations : GenerationRow(gens'[m])
      /\ index' \in [Generations -> Contents \cup {Missing}]
      /\ Active' = Active \ Obsolete(n) /\ \A k, m \in Active' : k = m
      /\ index'[n] = index[n]
  BY <1>2, <1>3, <1>4, DeleteStep
<1>6. Active' = Active
  BY <1>3, <1>4, <1>5
<1>7. (\A m \in Generations : GenerationRow(gens[m]))'
  BY <1>5
<1>8. Generations' = Generations /\ Contents' = Contents /\ Missing' = Missing /\ TaskIds' = TaskIds
  BY <1>1 DEF Generations, Contents, Entries, Missing, Absent, TaskIds
<1>9. ProjectionTyped'
  BY <1>1, <1>5, <1>7, <1>8 DEF ProjectionTyped
<1> QED BY <1>1, <1>2, <1>3, <1>5, <1>6, <1>9

(***************************************************************************)
(* Requests: they add operations and workflows that are queued.            *)
(***************************************************************************)
\* The tasks stay, with new ones behind them, and so do the operations.
Requested ==
    /\ ProjectionTyped' /\ UNCHANGED <<gens, index, alias>>
    /\ \A t \in TaskIds : t \in TaskIds' /\ tasks'[t] = tasks[t]
    /\ \A t \in TaskIds' \ TaskIds : tasks'[t].pc = "queued"
    /\ \A o \in DOMAIN ops : /\ o \in DOMAIN ops' /\ ops'[o].docs = ops[o].docs
                             /\ ops'[o].since = ops[o].since

\* Sequences of tasks and operations that others follow.
LEMMA TasksFollow ==
  ASSUME NEW S, NEW s \in Seq(S), NEW r \in Seq(S)
  PROVE  /\ s \o r \in Seq(S) /\ DOMAIN s \subseteq DOMAIN (s \o r)
         /\ \A i \in DOMAIN s : (s \o r)[i] = s[i]
         /\ \A i \in DOMAIN (s \o r) \ DOMAIN s : i - Len(s) \in DOMAIN r /\ (s \o r)[i] = r[i - Len(s)]
OBVIOUS

LEMMA FunctionIsSequence ==
  ASSUME NEW S, NEW n \in Nat, NEW f \in [1..n -> S]
  PROVE  f \in Seq(S) /\ Len(f) = n /\ DOMAIN f = 1..n
OBVIOUS

LEMMA SubsetSequence ==
  ASSUME NEW S, NEW T, S \subseteq T, NEW s \in Seq(S)
  PROVE  s \in Seq(T)
OBVIOUS

\* The types after a request.
LEMMA TypedAfterRequest ==
  ASSUME ProjectionTyped, UNCHANGED <<gens, index, alias>>,
         documents' \in Seq(MatterDocs), batch' \in [Batches -> ProjectedBatches],
         version' \in [MatterDocs -> Nat],
         ops' \in Seq(OperationRows), Len(ops') >= Len(ops),
         NEW new \in Seq(TaskRows), tasks' = tasks \o new,
         \A i \in DOMAIN new : /\ new[i].pc = "queued" /\ new[i].op <= Len(ops')
                               /\ new[i].op = 0 => new[i].batch \in Batches
  PROVE  /\ ProjectionTyped'
         /\ \A t \in TaskIds : t \in TaskIds' /\ tasks'[t] = tasks[t]
         /\ \A t \in TaskIds' \ TaskIds : /\ t - Len(tasks) \in DOMAIN new
                                          /\ tasks'[t] = new[t - Len(tasks)]
         /\ Active' = Active
<1>1. tasks \in Seq(TaskRows) /\ Len(ops) \in Nat /\ Len(ops') \in Nat
  BY DEF ProjectionTyped
<1>2. /\ tasks' \in Seq(TaskRows) /\ \A t \in TaskIds : t \in TaskIds' /\ tasks'[t] = tasks[t]
      /\ \A t \in TaskIds' \ TaskIds : t - Len(tasks) \in DOMAIN new /\ tasks'[t] = new[t - Len(tasks)]
  BY <1>1, TasksFollow DEF TaskIds
<1>3. "queued" \notin Placed
  BY DEF Placed, Building, Projecting, Tidying
<1>4. ASSUME NEW t \in TaskIds'
      PROVE  /\ tasks'[t].op <= Len(ops') /\ (tasks'[t].op = 0 => tasks'[t].batch \in Batches)
             /\ tasks'[t].pc \in Placed => tasks'[t].gen \in Generations
  <2>1. CASE t \in TaskIds
    BY <1>1, <1>2, <2>1, TaskRow
  <2>2. CASE t \notin TaskIds
    <3>1. PICK i \in DOMAIN new : tasks'[t] = new[i]
      BY <1>2, <2>2
    <3> QED BY <1>3, <3>1
  <2> QED BY <2>1, <2>2
<1>5. Active' = Active
  BY DEF Active
<1>6. Generations' = Generations /\ Contents' = Contents /\ Missing' = Missing
  BY DEF Generations, Contents, Entries, Missing, Absent
<1>7. (\A n \in Generations : GenerationRow(gens[n]))'
  BY DEF ProjectionTyped
<1>8. ProjectionTyped'
  BY <1>2, <1>4, <1>5, <1>6, <1>7 DEF ProjectionTyped
<1> QED BY <1>2, <1>5, <1>8

\* A task that a request queues.
LEMMA QueuedTask ==
  ASSUME NEW o \in Nat, NEW b \in Batches \cup {NoBatch}
  PROVE  NewTask(o, b) \in TaskRows /\ NewTask(o, b).op = o /\ NewTask(o, b).batch = b
         /\ NewTask(o, b).pc = "queued"
<1>1. 0 \in 0..MaxIndexes /\ EmptyIndex \in Contents /\ "queued" \in ProgramCounters
  BY Values DEF ProgramCounters
<1> QED BY <1>1 DEF NewTask, TaskRows

\* The operation that a request creates.
LEMMA CreatedOperation ==
  ASSUME ProjectionTyped, NEW kind \in OperationKinds, NEW docs \in SUBSET MatterDocs,
         CreateOperation(kind, docs), UNCHANGED <<gens, index, alias>>,
         documents' \in Seq(MatterDocs), batch' \in [Batches -> ProjectedBatches],
         version' \in [MatterDocs -> Nat]
  PROVE  LET o == Len(ops) + 1
         IN  /\ Requested /\ Active' = Active /\ o \in Nat /\ o \notin DOMAIN ops
             /\ DOMAIN ops' = DOMAIN ops \cup {o}
             /\ ops'[o] = [kind |-> kind, docs |-> docs, status |-> "QUEUED", since |-> version']
             /\ \A k \in DOMAIN ops : ops'[k] = ops[k]
             /\ \A t \in TaskIds' \ TaskIds : tasks'[t].op = o /\ t = Len(tasks) + 1
<1> DEFINE o == Len(ops) + 1
           row == [kind |-> kind, docs |-> docs, status |-> "QUEUED", since |-> version']
           task == NewTask(o, NoBatch)
<1>1. ops \in Seq(OperationRows) /\ tasks \in Seq(TaskRows) /\ Len(ops) \in Nat /\ o \in Nat
  BY DEF ProjectionTyped
<1>2. row \in OperationRows
  BY DEF OperationRows, OperationStatus
<1>3. task \in TaskRows /\ task.op = o /\ task.pc = "queued"
  BY <1>1, QueuedTask
<1>4. ops' = Append(ops, row) /\ tasks' = Append(tasks, task)
  BY DEF CreateOperation
<1> HIDE DEF task, row
<1>5. /\ ops' \in Seq(OperationRows) /\ Len(ops') = o /\ DOMAIN ops' = DOMAIN ops \cup {o}
      /\ o \notin DOMAIN ops /\ ops'[o] = row /\ \A k \in DOMAIN ops : ops'[k] = ops[k]
  BY <1>1, <1>2, <1>4
<1>6. PICK new \in Seq(TaskRows) : tasks' = tasks \o new /\ DOMAIN new = {1} /\ new[1] = task
  <2> DEFINE one == <<task>>
  <2>1. /\ one \in Seq(TaskRows) /\ tasks' = tasks \o one
        /\ DOMAIN one = {1} /\ one[1] = task
    BY <1>1, <1>3, <1>4
  <2> HIDE DEF one
  <2> QED BY <2>1
<1>7. \A i \in DOMAIN new : /\ new[i].pc = "queued" /\ new[i].op <= Len(ops')
                            /\ new[i].op = 0 => new[i].batch \in Batches
  BY <1>1, <1>3, <1>5, <1>6
<1>8. /\ ProjectionTyped' /\ Active' = Active
      /\ \A t \in TaskIds : t \in TaskIds' /\ tasks'[t] = tasks[t]
      /\ \A t \in TaskIds' \ TaskIds : t - Len(tasks) \in DOMAIN new /\ tasks'[t] = new[t - Len(tasks)]
  <2>1. ops' \in Seq(OperationRows) /\ Len(ops') >= Len(ops)
    BY <1>1, <1>5
  <2> HIDE DEF o
  <2> QED BY <1>6, <1>7, <2>1, TypedAfterRequest
<1>9. TaskIds' \subseteq Int /\ Len(tasks) \in Nat
  <2>1. tasks' \in Seq(TaskRows) /\ Len(tasks) \in Nat
    BY <1>1, <1>6
  <2>2. DOMAIN tasks' \subseteq Int
    BY <2>1
  <2> QED BY <2>1, <2>2 DEF TaskIds
<1>10. \A t \in TaskIds' \ TaskIds :
          tasks'[t].pc = "queued" /\ tasks'[t].op = o /\ t = Len(tasks) + 1
  <2>1. SUFFICES ASSUME NEW t \in TaskIds' \ TaskIds
                 PROVE  tasks'[t].pc = "queued" /\ tasks'[t].op = o /\ t = Len(tasks) + 1
    OBVIOUS
  <2>2. t - Len(tasks) = 1 /\ tasks'[t] = new[t - Len(tasks)]
    BY <1>6, <1>8
  <2>3. tasks'[t] = task
    BY <1>6, <2>2
  <2>4. t \in Int
    BY <1>9
  <2> HIDE DEF o
  <2> QED BY <1>3, <1>9, <2>2, <2>3, <2>4
<1>11. Requested
  BY <1>5, <1>8, <1>10 DEF Requested
<1> QED BY <1>1, <1>5, <1>8, <1>10, <1>11 DEF row

(***************************************************************************)
(* The alias: what keeps its invariant.                                    *)
(***************************************************************************)
\* A task whose step leaves the active index as it is keeps the invariant, if it is
\* sound itself and takes no lock that another holds.
LEMMA AliasKept ==
  ASSUME ProjectionTyped, AliasInv, NEW t \in TaskIds, Stepped(t), Active' = Active,
         \A n \in alias' : Exists(n)', \A m, n \in alias' : m = n, Active # {} => alias' # {},
         \A u \in TaskIds \ {t} :
            /\ tasks[u].pc \in Building => gens'[tasks[u].gen].status = "NONE"
            /\ tasks[u].pc = "activate" => alias' = {tasks[u].gen}
            /\ tasks[u].pc \in Tidying => alias' = Active,
         Sound(t)',
         tasks'[t].pc \in Locking => \A u \in TaskIds \ {t} : tasks[u].pc \notin Locking,
         tasks'[t].pc \in Building => \A u \in TaskIds \ {t} : tasks[u].pc \notin Tidying,
         tasks'[t].pc \in Tidying => \A u \in TaskIds \ {t} : tasks[u].pc \notin Building
  PROVE  AliasInv'
<1>1. TaskIds' = TaskIds /\ \A u \in TaskIds : u # t => tasks'[u] = tasks[u]
  BY TaskMoved DEF Stepped
<1>2. ASSUME NEW u \in TaskIds
      PROVE  Sound(u)'
  <2>1. CASE u = t
    BY <2>1
  <2>2. CASE u # t
    <3>1. Sound(u) /\ tasks'[u] = tasks[u]
      BY <1>1, <2>2 DEF AliasInv
    <3>2. tasks[u].pc = "activate" => alias' = {tasks[u].gen} /\ \A n \in alias' : Exists(n)'
      BY <2>2
    <3>3. tasks[u].pc = "activate" => Exists(tasks[u].gen)'
      <4>1. \A n \in alias' : Exists(n)'
        OBVIOUS
      <4>2. tasks[u].pc = "activate" => tasks'[u].gen \in alias'
        BY <3>1, <3>2
      <4> QED BY <4>1, <4>2 DEF Exists, Missing, Absent
    <3> QED BY <2>2, <3>1, <3>2, <3>3 DEF Sound, Exists, Missing, Absent
  <2> QED BY <2>1, <2>2
<1>3. ASSUME NEW u \in TaskIds, NEW v \in TaskIds
      PROVE  Apart(u, v)'
  <2>1. Apart(u, v) /\ Apart(v, u)
    BY DEF AliasInv
  <2>2. CASE u # t /\ v # t
    BY <1>1, <2>1, <2>2 DEF Apart
  <2>3. CASE u = t /\ v # t
    BY <1>1, <2>3 DEF Apart
  <2>4. CASE u # t /\ v = t
    BY <1>1, <2>4 DEF Apart
  <2>5. CASE u = t /\ v = t
    BY <2>5 DEF Apart, Building, Tidying
  <2> QED BY <2>2, <2>3, <2>4, <2>5
<1> QED BY <1>1, <1>2, <1>3 DEF AliasInv

\* Where the lock and a cleanup exclude other tasks.
LEMMA OthersApart ==
  ASSUME AliasInv, NEW t \in TaskIds, NEW u \in TaskIds \ {t}
  PROVE  /\ tasks[t].pc \in Locking => tasks[u].pc \notin Locking
         /\ tasks[t].pc \in Building => tasks[u].pc \notin Tidying
         /\ tasks[t].pc \in Tidying => tasks[u].pc \notin Building
         /\ LockFree => tasks[u].pc \notin Locking
         /\ tasks[u].pc \in Building => tasks[u].pc \in Locking
         /\ tasks[u].pc \in Building => gens[tasks[u].gen].status = "NONE"
         /\ tasks[u].pc = "activate" => alias = {tasks[u].gen}
         /\ tasks[u].pc \in Tidying => Active = {tasks[u].gen} /\ alias = Active
<1>1. Apart(t, u) /\ Apart(u, t) /\ Sound(u)
  BY DEF AliasInv
<1> QED BY <1>1 DEF Apart, Sound, LockFree, Building, Locking

\* The alias stays, and what it names.
LEMMA AliasStays ==
  ASSUME ProjectionTyped, AliasInv, UNCHANGED alias, Active' = Active,
         \A n \in alias : Exists(n) => Exists(n)'
  PROVE  /\ \A n \in alias' : Exists(n)'
         /\ \A m, n \in alias' : m = n
         /\ Active # {} => alias' # {}
BY DEF AliasInv

\* A task that neither holds the lock next nor cleans up.
LEMMA AliasIdle ==
  ASSUME ProjectionTyped, AliasInv, NEW t \in TaskIds, Stepped(t), Active' = Active, UNCHANGED alias,
         Grown, tasks'[t].pc \notin Locking \cup Tidying,
         UNCHANGED gens \/ tasks[t].pc \in Building \/ \A n \in Generations : gens'[n].status = gens[n].status
  PROVE  AliasInv'
<1>1. /\ \A n \in alias' : Exists(n)'
      /\ \A m, n \in alias' : m = n
      /\ Active # {} => alias' # {}
  <2>1. \A n \in alias : Exists(n) => Exists(n)'
    BY DEF Grown, ProjectionTyped
  <2> QED BY <2>1, AliasStays
<1>2. Sound(t)'
  BY DEF Sound, Building, Tidying, Locking
<1>3. ASSUME NEW u \in TaskIds \ {t}, tasks[u].pc \in Building
      PROVE  gens'[tasks[u].gen].status = "NONE"
  <2>1. tasks[u].gen \in Generations /\ gens[tasks[u].gen].status = "NONE"
    BY <1>3, OthersApart, TaskRow DEF Placed
  <2>2. tasks[t].pc \notin Building
    BY <1>3, OthersApart DEF Building, Locking
  <2> QED BY <2>1, <2>2
<1>4. tasks'[t].pc \notin Building
  BY DEF Building, Locking
<1> QED BY <1>1, <1>2, <1>3, <1>4, OthersApart, AliasKept

\* Ensure takes the lock: nobody else holds it.
LEMMA AliasEnsure ==
  ASSUME ProjectionTyped, AliasInv, InTurn, NEW t \in TaskIds, Ensure(t)
  PROVE  AliasInv'
<1>1. At(t, "ensure") /\ LockFree
  BY DEF Ensure
<1>2. ASSUME NEW n \in Active, EnsureCurrent(t, n)
      PROVE  AliasInv'
  <2>1. CASE UNCHANGED <<gens, index, alias>> /\ tasks'[t].pc \in {"begin", "error"}
    BY <1>1, <1>2, <2>1, EnsureCurrentStep, IndexKept, AliasIdle DEF Locking, Tidying
  <2>2. CASE /\ tasks'[t].pc = Work(t) /\ alias' = {n} /\ (alias = {n} \/ Exists(n)) /\ index'[n] = index[n]
    <3>1. Stepped(t) /\ Active' = Active /\ n \in Generations /\ Active = {n}
      BY <1>1, <1>2, EnsureCurrentStep, ActiveIs
    <3>2. Exists(n)
      BY <2>2 DEF AliasInv
    <3>3. \A m \in alias' : Exists(m)'
      BY <2>2, <3>2 DEF Exists, Missing, Absent
    <3>4. tasks'[t].pc \in {"relock", "read", "complete"}
      BY <2>2, WorkIs
    <3>5. Sound(t)'
      BY <3>4 DEF Sound, Building, Tidying
    <3>6. ASSUME NEW u \in TaskIds \ {t}
          PROVE  /\ tasks[u].pc \in Building => gens'[tasks[u].gen].status = "NONE"
                 /\ tasks[u].pc = "activate" => alias' = {tasks[u].gen}
                 /\ tasks[u].pc \in Tidying => alias' = Active
      BY <1>1, <2>2, <3>1, OthersApart DEF Building, Locking
    <3> QED BY <2>2, <3>1, <3>3, <3>4, <3>5, <3>6, AliasKept DEF Building, Locking, Tidying
  <2> QED BY <1>1, <1>2, <2>1, <2>2, EnsureCurrentStep
<1>3. ASSUME NEW n \in Active, EnsureInPlace(t, n)
      PROVE  AliasInv'
  <2>1. /\ Stepped(t) /\ Active' = Active /\ UNCHANGED <<index, alias>> /\ Active = {n}
        /\ \A m \in Generations : gens'[m].status = gens[m].status
    BY <1>1, <1>3, EnsureInPlaceStep, ActiveIs
  <2>2. CASE tasks'[t].pc \in {"begin", "error"}
    BY <2>1, <2>2, IndexKept, AliasIdle DEF Locking, Tidying
  <2>3. CASE tasks'[t].pc = "list" /\ tasks'[t].gen = n
    <3>1. alias = {n}
      BY <1>1, <2>3 DEF InTurn, At
    <3>2. Sound(t)'
      BY <2>1, <2>3, <3>1 DEF Sound, Building
    <3>3. /\ \A m \in alias' : Exists(m)'
          /\ \A k, m \in alias' : k = m
          /\ Active # {} => alias' # {}
      BY <2>1, AliasStays DEF Exists, Missing, Absent
    <3>4. \A u \in TaskIds \ {t} :
             /\ tasks[u].pc \in Building => gens'[tasks[u].gen].status = "NONE"
             /\ tasks[u].pc = "activate" => alias' = {tasks[u].gen}
             /\ tasks[u].pc \in Tidying => alias' = Active
             /\ tasks[u].pc \notin Building
      BY <1>1, <2>1, OthersApart
    <3> QED BY <2>1, <2>3, <3>2, <3>3, <3>4, AliasKept DEF Building, Locking
  <2> QED BY <1>1, <1>3, <2>2, <2>3, EnsureInPlaceStep
<1>4. ASSUME NEW n \in Active, EnsureRefuses(t, n)
      PROVE  AliasInv'
  BY <1>1, <1>4, EnsureRefusesStep, IndexKept, AliasIdle DEF Locking, Tidying
<1>5. ASSUME EnsureCreates(t)
      PROVE  AliasInv'
  <2>1. /\ Stepped(t) /\ Active' = Active /\ UNCHANGED <<gens, alias>> /\ tasks'[t].pc = "fill"
        /\ gens[tasks'[t].gen].status = "NONE" /\ ~Exists(tasks'[t].gen)
        /\ \A n \in Generations : n # tasks'[t].gen => index'[n] = index[n]
    BY <1>1, <1>5, EnsureCreatesStep
  <2>2. \A u \in TaskIds : tasks[u].pc \notin Tidying
    BY <1>1, <2>1 DEF InTurn, At, Tidying
  <2>3. \A n \in alias : Exists(n) => Exists(n)'
    BY <2>1 DEF Exists, Missing, Absent, ProjectionTyped
  <2>4. /\ \A m \in alias' : Exists(m)'
        /\ \A k, m \in alias' : k = m
        /\ Active # {} => alias' # {}
    BY <2>1, <2>3, AliasStays
  <2>5. Sound(t)'
    BY <2>1 DEF Sound, Building, Tidying
  <2>6. \A u \in TaskIds \ {t} :
           /\ tasks[u].pc \in Building => gens'[tasks[u].gen].status = "NONE"
           /\ tasks[u].pc = "activate" => alias' = {tasks[u].gen}
           /\ tasks[u].pc \in Tidying => alias' = Active
           /\ tasks[u].pc \notin Locking
    BY <1>1, <2>1, OthersApart
  <2> QED BY <2>1, <2>2, <2>4, <2>5, <2>6, AliasKept DEF Tidying
<1> QED BY <1>2, <1>3, <1>4, <1>5 DEF Ensure

\* The build of an index, from its first document to the commit.
LEMMA AliasBuild ==
  ASSUME ProjectionTyped, AliasInv, NEW t \in TaskIds, Fill(t) \/ SwitchAlias(t) \/ Activate(t)
  PROVE  AliasInv'
<1>1. tasks[t].pc \in Building /\ Sound(t)
  BY DEF Fill, SwitchAlias, Activate, At, Building, AliasInv
<1>2. /\ gens[tasks[t].gen].status = "NONE" /\ tasks[t].gen \in Generations
      /\ tasks[t].pc = "activate" => alias = {tasks[t].gen} /\ Exists(tasks[t].gen)
  BY <1>1, TaskRow DEF Sound, Placed
<1>3. \A u \in TaskIds \ {t} : tasks[u].pc \notin Locking \cup Building \cup Tidying
  BY <1>1, OthersApart DEF Building, Locking
<1>4. CASE Fill(t)
  <2>1. /\ Stepped(t) /\ Active' = Active /\ UNCHANGED <<gens, alias>> /\ Grown
        /\ tasks'[t].pc = "switch" /\ tasks'[t].gen = tasks[t].gen
    BY <1>4, FillStep
  <2>2. \A n \in alias : Exists(n) => Exists(n)'
    BY <2>1 DEF Grown, ProjectionTyped
  <2>3. Sound(t)'
    BY <1>2, <2>1 DEF Sound, Tidying
  <2> QED BY <1>3, <2>1, <2>2, <2>3, AliasStays, AliasKept DEF Building, Locking, Tidying
<1>5. CASE SwitchAlias(t)
  <2>1. Stepped(t) /\ UNCHANGED index /\ Active' = Active
    BY <1>2, <1>5, SwitchStep
  <2>2. CASE UNCHANGED alias /\ tasks'[t].pc \in {"begin", "error"}
    BY <1>1, <2>1, <2>2, IndexKept, AliasIdle DEF Locking, Tidying
  <2>3. CASE /\ UNCHANGED gens /\ alias' = {tasks[t].gen} /\ Exists(tasks[t].gen)
             /\ tasks'[t].pc = "activate" /\ tasks'[t].gen = tasks[t].gen
    <3>1. Sound(t)'
      BY <1>2, <2>1, <2>3 DEF Sound, Tidying, Exists, Missing, Absent
    <3>2. \A n \in alias' : Exists(n)'
      BY <2>1, <2>3 DEF Exists, Missing, Absent
    <3> QED BY <1>3, <2>1, <2>3, <3>1, <3>2, AliasKept DEF Building, Locking, Tidying
  <2> QED BY <1>5, <2>2, <2>3, SwitchStep
<1>6. CASE Activate(t)
  <2>1. /\ Stepped(t) /\ Active' = {tasks[t].gen} /\ UNCHANGED <<index, alias>> /\ tasks[t].pc = "activate"
        /\ tasks'[t].pc = "list" /\ tasks'[t].gen = tasks[t].gen
    BY <1>6, ActivateStep
  <2>2. alias' = {tasks[t].gen} /\ \A n \in alias' : Exists(n)'
    BY <1>2, <2>1 DEF Exists, Missing, Absent
  <2>3. TaskIds' = TaskIds /\ \A u \in TaskIds : u # t => tasks'[u] = tasks[u]
    BY <2>1, TaskMoved DEF Stepped
  <2>4. Sound(t)'
    BY <2>1, <2>2 DEF Sound, Building
  <2>5. \A u \in TaskIds : u # t => Sound(u)'
    BY <1>3, <2>3 DEF Sound, Building, Tidying
  <2>6. \A u, v \in TaskIds : Apart(u, v)'
    BY <1>3, <2>1, <2>3 DEF Apart, Building, Locking, Tidying
  <2> QED BY <2>1, <2>2, <2>3, <2>4, <2>5, <2>6 DEF AliasInv
<1> QED BY <1>4, <1>5, <1>6

\* The cleanup that follows a commit.
LEMMA AliasTidy ==
  ASSUME ProjectionTyped, AliasInv, NEW t \in TaskIds, ListObsolete(t) \/ Tidy(t) \/ TidyFails(t)
  PROVE  AliasInv'
<1>1. tasks[t].pc \in Tidying /\ Sound(t)
  BY DEF ListObsolete, Tidy, TidyFails, At, Tidying, AliasInv
<1>2. /\ Active = {tasks[t].gen} /\ alias = Active
      /\ tasks[t].pc = "tidy" => tasks[t].gen \notin tasks[t].doomed
  BY <1>1 DEF Sound
<1>3. \A u \in TaskIds \ {t} : tasks[u].pc \notin Building
  BY <1>1, OthersApart
<1>4. CASE ListObsolete(t)
  <2>1. /\ Stepped(t) /\ Active' = Active /\ UNCHANGED <<gens, index, alias>>
        /\ tasks'[t].pc = "tidy" /\ tasks'[t].gen = tasks[t].gen
        /\ tasks[t].gen \notin tasks'[t].doomed
    BY <1>4, ListStep
  <2>2. Sound(t)'
    BY <1>2, <2>1 DEF Sound, Building
  <2>3. \A n \in alias : Exists(n) => Exists(n)'
    BY <2>1 DEF Exists, Missing, Absent
  <2> QED BY <1>2, <1>3, <2>1, <2>2, <2>3, AliasStays, OthersApart, AliasKept DEF Building, Locking
<1>5. CASE Tidy(t)
  <2>1. /\ Stepped(t) /\ tasks[t].pc = "tidy" /\ tasks'[t].pc = Work(t)
        /\ Active' = Active \ tasks[t].doomed /\ alias' = alias \ tasks[t].doomed
        /\ \A n \in Generations \ tasks[t].doomed : index'[n] = index[n]
    BY <1>5, TidyStep
  <2>2. Active' = Active /\ alias' = alias
    BY <1>2, <2>1
  <2>3. \A n \in alias : Exists(n) => Exists(n)'
    BY <1>2, <2>1 DEF Exists, Missing, Absent, ProjectionTyped
  <2>4. tasks'[t].pc \in {"relock", "read", "complete"}
    BY <2>1, WorkIs
  <2>5. Sound(t)'
    BY <2>4 DEF Sound, Building, Tidying
  <2> QED BY <1>2, <1>3, <2>1, <2>2, <2>3, <2>4, <2>5, AliasStays, OthersApart, AliasKept DEF Building, Locking, Tidying
<1>6. CASE TidyFails(t)
  BY <1>6, TidyFailsStep, WorkIs, IndexKept, AliasIdle DEF Locking, Tidying
<1> QED BY <1>4, <1>5, <1>6

\* The other steps of a task.
LEMMA AliasTask ==
  ASSUME ProjectionTyped, AliasInv, InTurn, NEW t \in TaskIds,
         TaskStep(t) \/ TidyFails(t) \/ ServiceFails(t) \/ Crash(t)
  PROVE  AliasInv'
<1>1. CASE Begin(t)
  BY <1>1, BeginStep, IndexKept, AliasIdle DEF Locking, Tidying
<1>2. CASE ReadDocuments(t)
  BY <1>2, ReadDocumentsStep, IndexKept, AliasIdle DEF Locking, Tidying
<1>3. CASE WriteDocuments(t)
  BY <1>3, WriteDocumentsStep, AliasIdle DEF Locking, Tidying
<1>4. CASE Complete(t)
  BY <1>4, CompleteStep, IndexKept, AliasIdle DEF Locking, Tidying
<1>5. CASE UpdateMembers(t)
  <2>1. /\ Stepped(t) /\ Active' = Active /\ UNCHANGED <<gens, alias>> /\ Grown /\ LockFree
        /\ tasks'[t].pc \in {"synced", "begin", "error"}
    BY <1>5, UpdateMembersStep
  <2>2. \A n \in alias : Exists(n) => Exists(n)'
    BY <2>1 DEF Grown, ProjectionTyped
  <2>3. Sound(t)'
    BY <2>1 DEF Sound, Building, Tidying
  <2> QED BY <2>1, <2>2, <2>3, AliasStays, OthersApart, AliasKept DEF Building, Locking, Tidying
<1>6. CASE CommitSynced(t)
  BY <1>6, CommitSyncedStep, IndexKept, AliasIdle DEF Locking, Tidying
<1>7. CASE ServiceFails(t)
  <2>1. tasks[t].pc \in Building => gens[tasks[t].gen].status = "NONE"
    BY DEF AliasInv, Sound
  <2> QED BY <1>7, <2>1, ServiceFailsStep, IndexKept, AliasIdle DEF Locking, Tidying
<1>8. CASE Crash(t)
  BY <1>8, CrashStep, IndexKept, AliasIdle DEF Locking, Tidying
<1> QED BY <1>1, <1>2, <1>3, <1>4, <1>5, <1>6, <1>7, <1>8, AliasEnsure, AliasBuild, AliasTidy DEF TaskStep

(***************************************************************************)
(* Each request.                                                           *)
(***************************************************************************)
LEMMA ChangeDocumentStep ==
  ASSUME ProjectionTyped, NEW d \in MatterDocs, ChangeDocument(d)
  PROVE  LET o == Len(ops) + 1
         IN  /\ Requested /\ Active' = Active /\ o \notin DOMAIN ops /\ DOMAIN ops' = DOMAIN ops \cup {o}
             /\ ops'[o] = [kind |-> "DOCUMENT_UPSERT", docs |-> {d}, status |-> "QUEUED", since |-> version']
             /\ \A k \in DOMAIN ops : ops'[k] = ops[k]
             /\ \A t \in TaskIds' \ TaskIds : tasks'[t].op = o /\ t = Len(tasks) + 1
             /\ version' = [version EXCEPT ![d] = @ + 1] /\ version \in [MatterDocs -> Nat]
             /\ \A e \in ToSet(documents) : e \in ToSet(documents')
             /\ version[d] = 0 => d \in ToSet(documents')
<1>1. /\ version' = [version EXCEPT ![d] = @ + 1] /\ UNCHANGED <<batch, gens, index, alias>>
      /\ documents' = IF version[d] = 0 THEN Append(documents, d) ELSE documents
      /\ CreateOperation("DOCUMENT_UPSERT", {d})
  BY DEF ChangeDocument
<1>2. documents \in Seq(MatterDocs) /\ version \in [MatterDocs -> Nat]
  BY DEF ProjectionTyped
<1>3. documents' \in Seq(MatterDocs) /\ version' \in [MatterDocs -> Nat]
  BY <1>1, <1>2
<1>4. \A e \in ToSet(documents) : e \in ToSet(documents')
  <2>1. CASE version[d] = 0
    <3>1. \A i \in DOMAIN documents : i \in DOMAIN documents' /\ documents'[i] = documents[i]
      BY <1>1, <1>2, <2>1
    <3> QED BY <3>1 DEF ToSet
  <2>2. CASE version[d] # 0
    BY <1>1, <2>2
  <2> QED BY <2>1, <2>2
<1>5. version[d] = 0 => d \in ToSet(documents')
  <2>1. ASSUME version[d] = 0
        PROVE  Len(documents) + 1 \in DOMAIN documents' /\ documents'[Len(documents) + 1] = d
    BY <1>1, <1>2, <2>1
  <2> QED BY <2>1 DEF ToSet
<1>6. batch' \in [Batches -> ProjectedBatches] /\ {d} \in SUBSET MatterDocs
      /\ "DOCUMENT_UPSERT" \in OperationKinds
  BY <1>1, BatchesKept DEF OperationKinds
<1> QED BY <1>1, <1>2, <1>3, <1>4, <1>5, <1>6, CreatedOperation

LEMMA ReshapeStep ==
  ASSUME ProjectionTyped, RebuildIndex \/ \E s \in WantedSchemas : ChangeSchema(s)
  PROVE  LET o == Len(ops) + 1
         IN  /\ Requested /\ Active' = Active /\ o \notin DOMAIN ops /\ DOMAIN ops' = DOMAIN ops \cup {o}
             /\ ops'[o].kind \in {"REBUILD", "SCHEMA_SYNC"} /\ ops'[o].docs = {} /\ ops'[o].status = "QUEUED"
             /\ \A k \in DOMAIN ops : ops'[k] = ops[k]
             /\ \A t \in TaskIds' \ TaskIds : tasks'[t].op = o /\ t = Len(tasks) + 1
             /\ UNCHANGED <<documents, version>>
<1>1. /\ UNCHANGED <<documents, version, batch, gens, index, alias>>
      /\ \E kind \in {"REBUILD", "SCHEMA_SYNC"} : CreateOperation(kind, {})
  BY DEF RebuildIndex, ChangeSchema
<1>2. PICK kind \in {"REBUILD", "SCHEMA_SYNC"} : CreateOperation(kind, {})
  BY <1>1
<1>3. kind \in OperationKinds /\ {} \in SUBSET MatterDocs
  BY DEF OperationKinds
<1>4. /\ documents' \in Seq(MatterDocs) /\ version' \in [MatterDocs -> Nat]
      /\ batch' \in [Batches -> ProjectedBatches]
  BY <1>1 DEF ProjectionTyped
<1> DEFINE o == Len(ops) + 1
<1>5. /\ Requested /\ Active' = Active /\ o \notin DOMAIN ops /\ DOMAIN ops' = DOMAIN ops \cup {o}
      /\ ops'[o] = [kind |-> kind, docs |-> {}, status |-> "QUEUED", since |-> version']
      /\ \A k \in DOMAIN ops : ops'[k] = ops[k]
      /\ \A t \in TaskIds' \ TaskIds : tasks'[t].op = o /\ t = Len(tasks) + 1
  BY <1>1, <1>2, <1>3, <1>4, CreatedOperation
<1> HIDE DEF o
<1>6. ops'[o].kind \in {"REBUILD", "SCHEMA_SYNC"} /\ ops'[o].docs = {} /\ ops'[o].status = "QUEUED"
  BY <1>5
<1>7. UNCHANGED <<documents, version>>
  BY <1>1
<1> QED BY <1>5, <1>6, <1>7 DEF o

\* The operations that are queued again get a workflow each.
LEMMA QueuedAgain ==
  ASSUME ProjectionTyped, UNCHANGED <<documents, version, batch, gens, index, alias>>,
         ops' \in Seq(OperationRows), Len(ops') = Len(ops),
         \A o \in DOMAIN ops : ops'[o].docs = ops[o].docs /\ ops'[o].since = ops[o].since,
         NEW ids \in Seq(DOMAIN ops),
         tasks' = tasks \o [i \in 1..Len(ids) |-> NewTask(ids[i], NoBatch)]
  PROVE  /\ Requested /\ Active' = Active /\ DOMAIN ops' = DOMAIN ops
         /\ \A t \in TaskIds' \ TaskIds : \E i \in DOMAIN ids :
               t = Len(tasks) + i /\ tasks'[t].op = ids[i] /\ tasks'[t].pc = "queued"
<1>1. ops \in Seq(OperationRows) /\ DOMAIN ops = 1..Len(ops) /\ Len(ops) \in Nat
      /\ tasks \in Seq(TaskRows) /\ Len(tasks) \in Nat
  BY DEF ProjectionTyped
<1>2. \A i \in 1..Len(ids) : ids[i] \in 1..Len(ops)
  BY <1>1
<1> DEFINE new == [i \in 1..Len(ids) |-> NewTask(ids[i], NoBatch)]
<1>3. \A i \in 1..Len(ids) : /\ new[i] \in TaskRows /\ new[i].pc = "queued" /\ new[i].op = ids[i]
  <2>1. SUFFICES ASSUME NEW i \in 1..Len(ids)
                 PROVE  new[i] \in TaskRows /\ new[i].pc = "queued" /\ new[i].op = ids[i]
    OBVIOUS
  <2>2. PICK k \in Nat : k = ids[i]
    BY <1>1, <1>2
  <2>3. new[i] = NewTask(k, NoBatch)
    BY <2>2
  <2>4. NewTask(k, NoBatch) \in TaskRows /\ NewTask(k, NoBatch).pc = "queued" /\ NewTask(k, NoBatch).op = k
    BY QueuedTask
  <2> HIDE DEF new
  <2> QED BY <2>2, <2>3, <2>4
<1>4. PICK fresh \in Seq(TaskRows) : fresh = new /\ DOMAIN fresh = 1..Len(ids)
  <2>1. Len(ids) \in Nat /\ new \in [1..Len(ids) -> TaskRows]
    BY <1>3
  <2> HIDE DEF new
  <2> QED BY <2>1, FunctionIsSequence
<1>5. tasks' = tasks \o fresh
  BY <1>4
<1> HIDE DEF new
<1>12. DOMAIN ids = 1..Len(ids)
  OBVIOUS
<1>13. \A i \in DOMAIN fresh : fresh[i].pc = "queued" /\ fresh[i].op = ids[i] /\ ids[i] \in 1..Len(ops)
  BY <1>2, <1>3, <1>4
<1>6. \A i \in DOMAIN fresh : /\ fresh[i].pc = "queued" /\ fresh[i].op <= Len(ops')
                              /\ fresh[i].op = 0 => fresh[i].batch \in Batches
  BY <1>1, <1>13
<1>7. /\ documents' \in Seq(MatterDocs) /\ version' \in [MatterDocs -> Nat]
      /\ batch' \in [Batches -> ProjectedBatches] /\ Len(ops') >= Len(ops)
  BY <1>1 DEF ProjectionTyped
<1>8. /\ ProjectionTyped' /\ Active' = Active
      /\ \A t \in TaskIds : t \in TaskIds' /\ tasks'[t] = tasks[t]
      /\ \A t \in TaskIds' \ TaskIds : t - Len(tasks) \in DOMAIN fresh /\ tasks'[t] = fresh[t - Len(tasks)]
  BY <1>5, <1>6, <1>7, TypedAfterRequest
<1>9. DOMAIN ops' = DOMAIN ops
  BY <1>1
<1>14. TaskIds' \subseteq Int
  <2>1. PICK S : tasks' \in Seq(S)
    BY <1>8 DEF ProjectionTyped
  <2>2. DOMAIN tasks' \subseteq Int
    BY <2>1
  <2> QED BY <2>2 DEF TaskIds
<1>10. \A t \in TaskIds' \ TaskIds : \E i \in DOMAIN ids :
                 t = Len(tasks) + i /\ tasks'[t].op = ids[i] /\ tasks'[t].pc = "queued"
  <2>1. SUFFICES ASSUME NEW t \in TaskIds' \ TaskIds
                 PROVE  \E i \in DOMAIN ids :
                    t = Len(tasks) + i /\ tasks'[t].op = ids[i] /\ tasks'[t].pc = "queued"
    OBVIOUS
  <2>2. t \in Int
    BY <1>14
  <2>3. t - Len(tasks) \in DOMAIN fresh /\ tasks'[t] = fresh[t - Len(tasks)]
    BY <1>8
  <2>4. PICK i \in DOMAIN fresh : i = t - Len(tasks) /\ tasks'[t] = fresh[i]
    BY <2>3
  <2>5. i \in Int /\ i \in DOMAIN ids
    BY <1>4, <1>12, <2>4
  <2>6. t = Len(tasks) + i
    BY <1>1, <2>2, <2>4, <2>5
  <2> QED BY <1>13, <2>4, <2>5, <2>6
<1>11. Requested
  BY <1>8, <1>9, <1>10 DEF Requested
<1> QED BY <1>8, <1>9, <1>10, <1>11

LEMMA ConfirmReindexStep ==
  ASSUME ProjectionTyped, NEW o \in DOMAIN ops, ConfirmReindex(o)
  PROVE  /\ Requested /\ Active' = Active /\ UNCHANGED <<documents, version>>
         /\ DOMAIN ops' = DOMAIN ops /\ ops[o].status = "AWAITING_USER"
         /\ ops'[o].kind = "REBUILD" /\ ops'[o].status = "QUEUED"
         /\ \A k \in DOMAIN ops : k # o => ops'[k] = ops[k]
         /\ \A t \in TaskIds' \ TaskIds : tasks'[t].op = o /\ t = Len(tasks) + 1
<1>1. /\ UNCHANGED <<documents, version, batch, gens, index, alias>> /\ ops[o].status = "AWAITING_USER"
      /\ ops' = [ops EXCEPT ![o].kind = "REBUILD", ![o].status = "QUEUED"]
      /\ tasks' = Append(tasks, NewTask(o, NoBatch))
  BY DEF ConfirmReindex
<1>2. ops \in Seq(OperationRows) /\ DOMAIN ops = 1..Len(ops) /\ Len(ops) \in Nat
      /\ tasks \in Seq(TaskRows) /\ Len(tasks) \in Nat
  BY DEF ProjectionTyped
<1> DEFINE row == [ops[o] EXCEPT !.kind = "REBUILD", !.status = "QUEUED"]
<1>3. /\ row \in OperationRows /\ row.kind = "REBUILD" /\ row.status = "QUEUED"
      /\ row.docs = ops[o].docs /\ row.since = ops[o].since
  <2>1. ops[o] \in OperationRows
    BY <1>2
  <2> QED BY <2>1 DEF OperationRows, OperationKinds, OperationStatus
<1>4. ops' = [ops EXCEPT ![o] = row]
  BY <1>1, <1>2
<1> HIDE DEF row
<1>5. /\ ops' \in Seq(OperationRows) /\ Len(ops') = Len(ops) /\ ops'[o] = row
      /\ \A k \in DOMAIN ops : k # o => ops'[k] = ops[k]
  BY <1>2, <1>3, <1>4
<1>6. \A k \in DOMAIN ops : ops'[k].docs = ops[k].docs /\ ops'[k].since = ops[k].since
  BY <1>3, <1>5
<1>7. PICK ids \in Seq(DOMAIN ops) : Len(ids) = 1 /\ ids[1] = o /\ DOMAIN ids = {1}
  <2> DEFINE one == <<o>>
  <2>1. one \in Seq(DOMAIN ops) /\ Len(one) = 1 /\ one[1] = o /\ DOMAIN one = {1}
    OBVIOUS
  <2> HIDE DEF one
  <2> QED BY <2>1
<1>8. tasks' = tasks \o [i \in 1..Len(ids) |-> NewTask(ids[i], NoBatch)]
  <2>1. [i \in 1..Len(ids) |-> NewTask(ids[i], NoBatch)] = <<NewTask(o, NoBatch)>>
    BY <1>7
  <2>2. NewTask(o, NoBatch) \in TaskRows
    BY <1>2, QueuedTask
  <2> DEFINE task == NewTask(o, NoBatch)
  <2>3. tasks' = Append(tasks, task)
    BY <1>1
  <2> HIDE DEF task
  <2>4. Append(tasks, task) = tasks \o <<task>>
    BY <1>2, <2>2 DEF task
  <2> QED BY <2>1, <2>3, <2>4 DEF task
<1>9. /\ Requested /\ Active' = Active /\ DOMAIN ops' = DOMAIN ops
      /\ \A t \in TaskIds' \ TaskIds : \E i \in DOMAIN ids :
            t = Len(tasks) + i /\ tasks'[t].op = ids[i] /\ tasks'[t].pc = "queued"
  BY <1>1, <1>5, <1>6, <1>8, QueuedAgain
<1>10. \A t \in TaskIds' \ TaskIds : tasks'[t].op = o /\ t = Len(tasks) + 1
  BY <1>7, <1>9
<1> QED BY <1>1, <1>3, <1>5, <1>9, <1>10

LEMMA RetryFailedStep ==
  ASSUME ProjectionTyped, RetryFailed
  PROVE  /\ Requested /\ Active' = Active /\ UNCHANGED <<documents, version>>
         /\ DOMAIN ops' = DOMAIN ops
         /\ \A o \in DOMAIN ops : ops'[o].kind = ops[o].kind /\ ops'[o].status \in {ops[o].status, "QUEUED"}
         /\ \A t \in TaskIds' \ TaskIds : \E o \in DOMAIN ops :
               tasks'[t].op = o /\ ops[o].kind = "DOCUMENT_UPSERT"
<1> DEFINE failed == {o \in DOMAIN ops : ops[o].kind = "DOCUMENT_UPSERT" /\ ops[o].status = "FAILED"}
<1>1. /\ UNCHANGED <<documents, version, batch, gens, index, alias>>
      /\ ops' = [o \in DOMAIN ops |-> IF o \in failed THEN [ops[o] EXCEPT !.status = "QUEUED"] ELSE ops[o]]
      /\ tasks' = tasks \o [i \in 1..Cardinality(failed) |-> NewTask(SetToSeq(failed)[i], NoBatch)]
  BY DEF RetryFailed
<1>2. ops \in Seq(OperationRows) /\ DOMAIN ops = 1..Len(ops) /\ Len(ops) \in Nat
  BY DEF ProjectionTyped
<1>3. \A o \in DOMAIN ops : ops[o] \in OperationRows
  BY <1>2
<1>4. ASSUME NEW o \in DOMAIN ops
      PROVE  /\ ops'[o] \in OperationRows /\ ops'[o].kind = ops[o].kind
             /\ ops'[o].docs = ops[o].docs /\ ops'[o].since = ops[o].since
             /\ ops'[o].status \in {ops[o].status, "QUEUED"}
  <2>1. \A r \in OperationRows :
           /\ [r EXCEPT !.status = "QUEUED"] \in OperationRows
           /\ [r EXCEPT !.status = "QUEUED"].kind = r.kind /\ [r EXCEPT !.status = "QUEUED"].docs = r.docs
           /\ [r EXCEPT !.status = "QUEUED"].since = r.since
           /\ [r EXCEPT !.status = "QUEUED"].status = "QUEUED"
    BY DEF OperationRows, OperationStatus
  <2>2. ops'[o] = IF o \in failed THEN [ops[o] EXCEPT !.status = "QUEUED"] ELSE ops[o]
    BY <1>1
  <2> HIDE DEF failed
  <2> QED BY <1>3, <2>1, <2>2
<1>5. ops' = [o \in 1..Len(ops) |-> ops'[o]]
  BY <1>1, <1>2
<1>6. ops' \in Seq(OperationRows) /\ Len(ops') = Len(ops)
  <2>1. ops' \in [1..Len(ops) -> OperationRows]
    BY <1>2, <1>4, <1>5
  <2> QED BY <1>2, <2>1
<1>7. failed \subseteq 1..Len(ops) /\ IsFiniteSet(failed)
  <2>1. failed \subseteq 1..Len(ops)
    BY <1>2
  <2> HIDE DEF failed
  <2>2. IsFiniteSet(1..Len(ops))
    BY <1>2, FS_Interval
  <2> QED BY <2>1, <2>2, FS_Subset
<1>8. PICK ids \in Seq(failed) : ids = SetToSeq(failed) /\ Len(ids) = Cardinality(failed)
  <2> HIDE DEF failed
  <2> QED BY <1>7, EnumerationIsSequence
<1>9. ids \in Seq(DOMAIN ops)
  <2>1. failed \subseteq DOMAIN ops
    OBVIOUS
  <2> HIDE DEF failed
  <2> QED BY <2>1, SubsetSequence
<1>10. tasks' = tasks \o [i \in 1..Len(ids) |-> NewTask(ids[i], NoBatch)]
  BY <1>1, <1>8
<1>11. /\ Requested /\ Active' = Active /\ DOMAIN ops' = DOMAIN ops
       /\ \A t \in TaskIds' \ TaskIds : \E i \in DOMAIN ids :
             t = Len(tasks) + i /\ tasks'[t].op = ids[i] /\ tasks'[t].pc = "queued"
  BY <1>1, <1>4, <1>6, <1>9, <1>10, QueuedAgain
<1>12. \A i \in DOMAIN ids : ids[i] \in failed
  <2> HIDE DEF failed
  <2> QED OBVIOUS
<1>13. \A t \in TaskIds' \ TaskIds : \E o \in failed : tasks'[t].op = o
  BY <1>11, <1>12
<1> QED BY <1>1, <1>4, <1>11, <1>13

LEMMA ProjectBatchStep ==
  ASSUME ProjectionTyped, NEW b \in Batches, ProjectBatch(b)
  PROVE  /\ Requested /\ Active' = Active /\ UNCHANGED <<documents, version, ops>>
         /\ \A t \in TaskIds' \ TaskIds : tasks'[t].op = 0
<1>1. /\ UNCHANGED <<documents, version, ops, gens, index, alias>>
      /\ Materialize(b) /\ tasks' = Append(tasks, NewTask(0, b))
  BY DEF ProjectBatch, Materialize
<1>2. /\ ops \in Seq(OperationRows) /\ Len(ops) \in Nat /\ documents \in Seq(MatterDocs)
      /\ version \in [MatterDocs -> Nat] /\ batch \in [Batches -> ProjectedBatches]
      /\ tasks \in Seq(TaskRows) /\ Len(tasks) \in Nat
  BY DEF ProjectionTyped
<1>3. batch[b] \in ProjectedBatches /\ batch[b].selection = "ALL_MATTER"
  BY <1>2 DEF ProjectedBatches
<1>4. DatabaseDocumentIds(b) = documents
  BY <1>3 DEF DatabaseDocumentIds
<1>5. Selected(b) \subseteq ProjectedBatches
  <2>1. Selections(b) = {documents}
    BY <1>3, <1>4 DEF Selections
  <2>2. ASSUME NEW r \in ProjectedBatches, NEW ids \in Seq(MatterDocs)
        PROVE  [r EXCEPT !.members = ids, !.count = Len(ids), !.status = "READY"] \in ProjectedBatches
    <3>1. Len(ids) \in Nat /\ "READY" \in BatchStatus
      BY DEF BatchStatus
    <3> DEFINE n == Len(ids)
    <3> HIDE DEF n
    <3>2. n \in Nat
      BY <3>1 DEF n
    <3>3. [r EXCEPT !.members = ids, !.count = n, !.status = "READY"] \in ProjectedBatches
      BY <3>1, <3>2 DEF ProjectedBatches
    <3> QED BY <3>3 DEF n
  <2>3. [batch[b] EXCEPT !.members = documents, !.count = Len(documents), !.status = "READY"] \in ProjectedBatches
    BY <1>2, <1>3, <2>2
  <2>4. \A row \in Selected(b) : row = batch[b] \/
           row = [batch[b] EXCEPT !.members = documents, !.count = Len(documents), !.status = "READY"]
    BY <2>1 DEF Selected
  <2> QED BY <1>3, <2>3, <2>4
<1>6. PICK row \in ProjectedBatches : batch' = [batch EXCEPT ![b] = [row EXCEPT !.build = "sync", !.attempts = 0]]
  BY <1>1, <1>5 DEF Materialize
<1>7. [row EXCEPT !.build = "sync", !.attempts = 0] \in ProjectedBatches
  BY DEF ProjectedBatches, BuildPC
<1>8. batch' \in [Batches -> ProjectedBatches]
  BY <1>2, <1>6, <1>7
<1>9. PICK task \in TaskRows : task = NewTask(0, b) /\ task.op = 0 /\ task.batch = b /\ task.pc = "queued"
  BY QueuedTask
<1>10. PICK new \in Seq(TaskRows) : tasks' = tasks \o new /\ DOMAIN new = {1} /\ new[1] = task
  <2> DEFINE one == <<task>>
  <2>1. /\ one \in Seq(TaskRows) /\ tasks' = tasks \o one
        /\ DOMAIN one = {1} /\ one[1] = task
    <3>1. tasks' = Append(tasks, task)
      BY <1>1, <1>9
    <3> QED BY <1>2, <3>1
  <2> HIDE DEF one
  <2> QED BY <2>1
<1>11. \A i \in DOMAIN new : /\ new[i].pc = "queued" /\ new[i].op <= Len(ops')
                             /\ new[i].op = 0 => new[i].batch \in Batches
  BY <1>1, <1>2, <1>9, <1>10
<1>12. /\ ProjectionTyped' /\ Active' = Active
       /\ \A t \in TaskIds : t \in TaskIds' /\ tasks'[t] = tasks[t]
       /\ \A t \in TaskIds' \ TaskIds : t - Len(tasks) \in DOMAIN new /\ tasks'[t] = new[t - Len(tasks)]
  <2>1. Len(ops') >= Len(ops) /\ ops' \in Seq(OperationRows) /\ documents' \in Seq(MatterDocs)
        /\ version' \in [MatterDocs -> Nat] /\ UNCHANGED <<gens, index, alias>>
    BY <1>1, <1>2
  <2> QED BY <1>8, <1>10, <1>11, <2>1, TypedAfterRequest
<1>13. \A t \in TaskIds' \ TaskIds : tasks'[t] = task
  BY <1>10, <1>12
<1>14. Requested
  BY <1>1, <1>9, <1>12, <1>13 DEF Requested
<1> QED BY <1>1, <1>9, <1>12, <1>13, <1>14

(***************************************************************************)
(* The invariants hold at first, and the types after every step.           *)
(***************************************************************************)
LEMMA ProjectionStarts ==
  ProjectionInit => ProjectionTyped /\ AliasInv
<1> SUFFICES ASSUME ProjectionInit
             PROVE  ProjectionTyped /\ AliasInv
  OBVIOUS
<1>1. /\ documents = <<>> /\ ops = <<>> /\ tasks = <<>> /\ version = [d \in MatterDocs |-> 0]
      /\ batch = [b \in Batches |-> [NoReviewBatch EXCEPT !.status = "QUEUED", !.build = "materialize"]]
  BY DEF ProjectionInit
<1>2. MaxIndexes \in Nat \ {0} /\ 1 \in Generations /\ EmptyIndex \in Contents /\ Missing \notin Contents
  BY Values, ProjectionAssumption DEF Generations
<1>3. batch \in [Batches -> ProjectedBatches]
  <2>1. [NoReviewBatch EXCEPT !.status = "QUEUED", !.build = "materialize"] \in ProjectedBatches
    <3>1. "NONE" \in BatchStatus /\ "QUEUED" \in BatchStatus /\ "QUEUED" \in SearchStatus
          /\ "none" \in BuildPC /\ "materialize" \in BuildPC
      BY DEF BatchStatus, SearchStatus, BuildPC
    <3>2. PICK x \in Seq(MatterDocs) : x = <<>>
      <4>1. <<>> \in Seq(MatterDocs)
        OBVIOUS
      <4> DEFINE none == <<>>
      <4>2. none \in Seq(MatterDocs) /\ none = <<>>
        BY <4>1
      <4> HIDE DEF none
      <4> QED BY <4>2, Zenon
    <3>3. [status |-> "NONE", selection |-> "ALL_MATTER", source |-> NoBatch, sample |-> 0,
           order |-> x, members |-> x, count |-> 0, assigned |-> Nobody,
           search |-> "QUEUED", build |-> "none", attempts |-> 0] \in ProjectedBatches
      BY <3>1, <3>2 DEF ProjectedBatches
    <3>4. NoReviewBatch \in ProjectedBatches
      BY <3>2, <3>3, Zenon DEF NoReviewBatch
    <3>5. \A r \in ProjectedBatches :
             [r EXCEPT !.status = "QUEUED", !.build = "materialize"] \in ProjectedBatches
      BY <3>1 DEF ProjectedBatches
    <3> QED BY <3>4, <3>5
  <2> QED BY <1>1, <2>1
<1>4. TaskIds = {} /\ DOMAIN ops = {}
  BY <1>1 DEF TaskIds
<1>5. documents \in Seq(MatterDocs) /\ ops \in Seq(OperationRows) /\ tasks \in Seq(TaskRows)
      /\ version \in [MatterDocs -> Nat]
  BY <1>1
<1>6. \A s : GenerationRow([status |-> "ACTIVE", schema |-> s]) /\ GenerationRow(NoGeneration)
             /\ NoGeneration.status = "NONE"
  BY DEF GenerationRow, GenerationStatus, NoGeneration
<1>7. CASE /\ gens = [n \in Generations |-> NoGeneration]
           /\ index = [n \in Generations |-> Missing] /\ alias = {}
  <2>1. Active = {}
    BY <1>6, <1>7 DEF Active
  <2> QED BY <1>3, <1>4, <1>5, <1>6, <1>7, <2>1 DEF ProjectionTyped, AliasInv
<1>8. ASSUME NEW s,
             gens = [n \in Generations |-> IF n = 1 THEN [status |-> "ACTIVE", schema |-> s] ELSE NoGeneration],
             index = [n \in Generations |-> IF n = 1 THEN EmptyIndex ELSE Missing], alias = {1}
      PROVE  ProjectionTyped /\ AliasInv
  <2>1. \A n \in Generations : gens[n] = IF n = 1 THEN [status |-> "ACTIVE", schema |-> s] ELSE NoGeneration
    BY <1>8
  <2>2. Active = {1}
    BY <1>2, <1>6, <2>1 DEF Active
  <2>3. gens = [n \in Generations |-> gens[n]] /\ \A n \in Generations : GenerationRow(gens[n])
    BY <1>6, <1>8, <2>1
  <2>4. index \in [Generations -> Contents \cup {Missing}] /\ index[1] = EmptyIndex
    BY <1>2, <1>8
  <2> QED BY <1>2, <1>3, <1>4, <1>5, <1>8, <2>2, <2>3, <2>4 DEF ProjectionTyped, AliasInv, Exists
<1> QED BY <1>7, <1>8 DEF ProjectionInit

LEMMA TypedTask ==
  ASSUME ProjectionTyped, NEW t \in TaskIds,
         TaskStep(t) \/ TidyFails(t) \/ ServiceFails(t) \/ Crash(t)
  PROVE  ProjectionTyped'
<1>1. CASE Ensure(t)
  BY <1>1, EnsureCurrentStep, EnsureInPlaceStep, EnsureRefusesStep, EnsureCreatesStep DEF Ensure, Stepped
<1>2. CASE Begin(t) \/ Fill(t) \/ SwitchAlias(t) \/ Activate(t) \/ ListObsolete(t) \/ Tidy(t)
  BY <1>2, BeginStep, FillStep, SwitchStep, ActivateStep, ListStep, TidyStep DEF Stepped
<1>3. CASE ReadDocuments(t) \/ WriteDocuments(t) \/ Complete(t) \/ UpdateMembers(t) \/ CommitSynced(t)
  BY <1>3, ReadDocumentsStep, WriteDocumentsStep, CompleteStep, UpdateMembersStep, CommitSyncedStep
     DEF Stepped
<1>4. CASE TidyFails(t) \/ ServiceFails(t) \/ Crash(t)
  BY <1>4, TidyFailsStep, ServiceFailsStep, CrashStep DEF Stepped
<1> QED BY <1>1, <1>2, <1>3, <1>4 DEF TaskStep

\* The requests.
Request ==
    \/ \E d \in MatterDocs : ChangeDocument(d)
    \/ RebuildIndex \/ \E s \in WantedSchemas : ChangeSchema(s)
    \/ \E o \in DOMAIN ops : ConfirmReindex(o)
    \/ RetryFailed
    \/ \E b \in Batches : ProjectBatch(b)

LEMMA NextIs ==
  ASSUME ProjectionNext
  PROVE  \/ Request
         \/ CleanupScript
         \/ \E t \in TaskIds : TaskStep(t) \/ TidyFails(t) \/ ServiceFails(t) \/ Crash(t)
BY DEF ProjectionNext, Request

LEMMA RequestStep ==
  ASSUME ProjectionTyped, Request
  PROVE  Requested /\ Active' = Active
<1>1. CASE \E d \in MatterDocs : ChangeDocument(d)
  BY <1>1, ChangeDocumentStep
<1>2. CASE RebuildIndex \/ \E s \in WantedSchemas : ChangeSchema(s)
  BY <1>2, ReshapeStep
<1>3. CASE \E o \in DOMAIN ops : ConfirmReindex(o)
  BY <1>3, ConfirmReindexStep
<1>4. CASE RetryFailed
  BY <1>4, RetryFailedStep
<1>5. CASE \E b \in Batches : ProjectBatch(b)
  BY <1>5, ProjectBatchStep
<1> QED BY <1>1, <1>2, <1>3, <1>4, <1>5 DEF Request

LEMMA TypedSteps ==
  ProjectionTyped /\ [ProjectionNext]_projectionVars => ProjectionTyped'
<1> SUFFICES ASSUME ProjectionTyped, [ProjectionNext]_projectionVars
             PROVE  ProjectionTyped'
  OBVIOUS
<1>1. CASE ProjectionNext
  <2>1. CASE Request
    BY <2>1, RequestStep DEF Requested
  <2>2. CASE CleanupScript
    BY <2>2, CleanupScriptStep
  <2>3. CASE \E t \in TaskIds : TaskStep(t) \/ TidyFails(t) \/ ServiceFails(t) \/ Crash(t)
    BY <2>3, TypedTask
  <2> QED BY <1>1, <2>1, <2>2, <2>3, NextIs
<1>2. CASE UNCHANGED projectionVars
  BY <1>2 DEF projectionVars, ProjectionTyped, TaskIds, Active, Generations, Contents, Entries, Missing,
     Absent
<1> QED BY <1>1, <1>2

LEMMA AliasRequested ==
  ASSUME ProjectionTyped, AliasInv, Requested, Active' = Active
  PROVE  AliasInv'
<1>1. /\ UNCHANGED <<gens, index, alias>>
      /\ \A t \in TaskIds : t \in TaskIds' /\ tasks'[t] = tasks[t]
      /\ \A t \in TaskIds' \ TaskIds : tasks'[t].pc = "queued"
  BY DEF Requested
<1>2. "queued" \notin Building \cup Tidying \cup Locking
  BY DEF Building, Tidying, Locking
<1>3. /\ \A m, n \in alias' : m = n
      /\ Active' # {} => alias' # {}
      /\ \A n \in alias' : Exists(n)'
  BY <1>1 DEF AliasInv, Exists, Missing, Absent
<1>4. ASSUME NEW t \in TaskIds'
      PROVE  Sound(t)'
  <2>1. CASE t \in TaskIds
    <3>1. Sound(t) /\ tasks'[t] = tasks[t]
      BY <1>1, <2>1 DEF AliasInv
    <3> QED BY <1>1, <3>1 DEF Sound, Exists, Missing, Absent
  <2>2. CASE t \notin TaskIds
    BY <1>1, <1>2, <2>2 DEF Sound, Building
  <2> QED BY <2>1, <2>2
<1>5. ASSUME NEW t \in TaskIds', NEW u \in TaskIds'
      PROVE  Apart(t, u)'
  <2>1. CASE t \in TaskIds /\ u \in TaskIds
    <3>1. Apart(t, u) /\ tasks'[t] = tasks[t] /\ tasks'[u] = tasks[u]
      BY <1>1, <2>1 DEF AliasInv
    <3> QED BY <3>1 DEF Apart
  <2>2. CASE tasks'[t].pc = "queued" \/ tasks'[u].pc = "queued"
    BY <1>2, <2>2 DEF Apart
  <2> QED BY <1>1, <2>1, <2>2
<1> QED BY <1>3, <1>4, <1>5 DEF AliasInv

LEMMA AliasCleanup ==
  ASSUME ProjectionTyped, AliasInv, CleanupScript
  PROVE  AliasInv'
<1>1. UNCHANGED <<tasks, alias>> /\ LockFree /\ Active' = Active /\ TaskIds' = TaskIds
  BY CleanupScriptStep DEF TaskIds
<1>2. PICK n \in Active : Active = {n} /\ alias = {n} /\ Exists(n) /\ index'[n] = index[n]
  BY CleanupScriptStep
<1>3. /\ \A k, m \in alias' : k = m
      /\ Active' # {} => alias' # {}
      /\ \A m \in alias' : Exists(m)'
  BY <1>1, <1>2 DEF Exists, Missing, Absent
<1>4. ASSUME NEW t \in TaskIds
      PROVE  Sound(t)'
  <2>1. Sound(t) /\ tasks[t].pc \notin Building
    BY <1>1 DEF AliasInv, LockFree, Locking, Building
  <2> QED BY <1>1, <2>1 DEF Sound, Building
<1>5. ASSUME NEW t \in TaskIds, NEW u \in TaskIds
      PROVE  Apart(t, u)'
  <2>1. Apart(t, u)
    BY DEF AliasInv
  <2> QED BY <1>1, <2>1 DEF Apart
<1> QED BY <1>1, <1>3, <1>4, <1>5 DEF AliasInv

LEMMA AliasSteps ==
  ProjectionTyped /\ AliasInv /\ [ProjectionNext /\ InTurn]_projectionVars => AliasInv'
<1> SUFFICES ASSUME ProjectionTyped, AliasInv, [ProjectionNext /\ InTurn]_projectionVars
             PROVE  AliasInv'
  OBVIOUS
<1>1. CASE ProjectionNext /\ InTurn
  BY <1>1, NextIs, RequestStep, AliasRequested, AliasCleanup, AliasTask
<1>2. CASE UNCHANGED projectionVars
  BY <1>2 DEF projectionVars, AliasInv, Sound, Apart, TaskIds, Active, Exists, Missing, Absent
<1> QED BY <1>1, <1>2

\* The rows have values that their columns hold and a matter never has two active
\* generations, whatever interleaving of requests, workflows, crashes and cleanups.
THEOREM ProjectionTypes == ProjectionSpec => []ProjectionTypeOK
<1>1. ProjectionInit => ProjectionTyped
  BY ProjectionStarts
<1>2. ProjectionTyped /\ [ProjectionNext]_projectionVars => ProjectionTyped'
  BY TypedSteps
<1>3. ProjectionTyped => ProjectionTypeOK
  <2> SUFFICES ASSUME ProjectionTyped
               PROVE  ProjectionTypeOK
    OBVIOUS
  <2>1. BuildTypeOK
    <3>1. \A b \in Batches : batch[b] \in ProjectedBatches
      BY DEF ProjectionTyped
    <3>2. 0 \in 0..MaxBuildAttempts
      BY BuildAssumption
    <3>3. documents \in Seq(MatterDocs)
      BY DEF ProjectionTyped
    <3> QED BY <3>1, <3>2, <3>3 DEF BuildTypeOK, ProjectedBatches
  <2>2. \A o \in DOMAIN ops : ops[o].kind \in OperationKinds /\ ops[o].status \in OperationStatus
    <3>1. ops \in Seq(OperationRows)
      BY DEF ProjectionTyped
    <3>2. \A o \in DOMAIN ops : ops[o] \in OperationRows
      BY <3>1
    <3> QED BY <3>2 DEF OperationRows
  <2>3. /\ \A n \in Generations : gens[n].status \in GenerationStatus
        /\ alias \subseteq Generations
    BY DEF ProjectionTyped, GenerationRow
  <2>4. Cardinality(Active) <= 1
    <3>1. Active = {} => Cardinality(Active) = 0
      BY FS_EmptySet
    <3>2. ASSUME Active # {}
          PROVE  Cardinality(Active) = 1
      <4>1. PICK n \in Active : TRUE
        BY <3>2
      <4>2. Active = {n}
        BY <4>1, ActiveIs
      <4> QED BY <4>2, FS_Singleton
    <3>3. Cardinality(Active) = 0 \/ Cardinality(Active) = 1
      BY <3>1, <3>2
    <3> QED BY <3>3
  <2> QED BY <2>1, <2>2, <2>3, <2>4 DEF ProjectionTypeOK
<1> QED BY <1>1, <1>2, <1>3, PTL DEF ProjectionSpec

\* When cleanups and builds take turns, a matter that has a searchable index keeps one:
\* rebuilds, crashes, failures of the service and cleanups never leave the alias without
\* the one existing index it names.
THEOREM SearchStaysUp == OrderlyProjection => []SearchNeverInterrupted
<1>1. ProjectionInit => ProjectionTyped /\ AliasInv
  BY ProjectionStarts
<1>2. ProjectionTyped /\ AliasInv /\ [ProjectionNext /\ InTurn]_projectionVars
        => ProjectionTyped' /\ AliasInv'
  <2>1. [ProjectionNext /\ InTurn]_projectionVars => [ProjectionNext]_projectionVars
    OBVIOUS
  <2> QED BY <2>1, TypedSteps, AliasSteps
<1>3. AliasInv => SearchNeverInterrupted
  <2> SUFFICES ASSUME AliasInv
               PROVE  SearchNeverInterrupted
    OBVIOUS
  <2>1. CASE alias = {}
    BY <2>1, FS_EmptySet DEF AliasInv, SearchNeverInterrupted
  <2>2. CASE alias # {}
    <3>1. PICK n : alias = {n}
      BY <2>2 DEF AliasInv
    <3>2. Cardinality(alias) = 1
      BY <3>1, FS_Singleton
    <3> QED BY <3>2 DEF AliasInv, SearchNeverInterrupted
  <2> QED BY <2>1, <2>2
<1> QED BY <1>1, <1>2, <1>3, PTL DEF OrderlyProjection

(***************************************************************************)
(* The content: what keeps its invariant.                                  *)
(***************************************************************************)
Filled == {"switch", "activate"}

\* An index loses no document.
Keeps(n) == \A d \in MatterDocs : Held(n, d) => Held(n, d)'

LEMMA OperationRow ==
  ASSUME ProjectionTyped, NEW o \in DOMAIN ops
  PROVE  /\ o \in Nat \ {0} /\ o <= Len(ops) /\ ops[o] \in OperationRows
         /\ ops[o].docs \subseteq MatterDocs /\ ops[o].kind \in OperationKinds
         /\ ops[o].since \in [MatterDocs -> Nat]
<1>1. ops \in Seq(OperationRows) /\ Len(ops) \in Nat /\ DOMAIN ops = 1..Len(ops)
  BY DEF ProjectionTyped
<1>2. ops[o] \in OperationRows
  BY <1>1
<1> QED BY <1>1, <1>2 DEF OperationRows

LEMMA OperationOf ==
  ASSUME ProjectionTyped, NEW t \in TaskIds
  PROVE  /\ ~IsBatch(t) => tasks[t].op \in DOMAIN ops
         /\ tasks[t].op \in DOMAIN ops => ~IsBatch(t)
<1>1. ops \in Seq(OperationRows) /\ Len(ops) \in Nat /\ DOMAIN ops = 1..Len(ops)
  BY DEF ProjectionTyped
<1>2. tasks[t].op \in 0..Len(ops)
  BY TaskRow
<1> QED BY <1>1, <1>2 DEF IsBatch

\* What a step of a task does to what the invariant says of the other tasks.
LEMMA ContentOthers ==
  ASSUME ProjectionTyped, ContentInv, NEW t \in TaskIds, Stepped(t), Active' = Active,
         \A n \in Active : Keeps(n),
         \A u \in TaskIds \ {t}, n \in Generations : (tasks[u].pc \in Filled /\ n = tasks[u].gen) => Keeps(n),
         tasks'[t].pc \in Projecting =>
            tasks[t].pc \in Projecting \/ \A u \in TaskIds \ {t} : tasks[u].pc \notin Filled,
         \A o \in DOMAIN ops : ops'[o].status = "COMPLETED" =>
            ops[o].status = "COMPLETED" \/ (o = tasks[t].op /\ tasks[t].pc = "complete"),
         tasks[t].pc \notin Ended,
         NEW u \in TaskIds \ {t}
  PROVE  (~IsBatch(u) => Projects(u))' /\ Fills(u)' /\ Rebuilds(u)'
<1>1. /\ TaskIds' = TaskIds /\ \A v \in TaskIds : v # t => tasks'[v] = tasks[v]
      /\ \A v \in TaskIds : tasks'[v].op = tasks[v].op
  BY TaskMoved DEF Stepped
<1>2. /\ DOMAIN ops' = DOMAIN ops
      /\ \A o \in DOMAIN ops : ops'[o].kind = ops[o].kind /\ ops'[o].docs = ops[o].docs
  BY DEF Stepped, KeepsOperations
<1>3. (~IsBatch(u) => Projects(u)) /\ Fills(u) /\ Rebuilds(u) /\ Rebuilds(t)
  BY DEF ContentInv
<1>4. tasks'[u] = tasks[u]
  BY <1>1
<1>5. \A o \in DOMAIN ops, d \in MatterDocs, n \in Active : d \in ops[o].docs /\ Held(n, d) => Held(n, d)'
  BY DEF Keeps
<1>6. \A o \in DOMAIN ops : ops[o].docs \subseteq MatterDocs
  BY OperationRow
<1>7. (~IsBatch(u) => Projects(u))'
  <2> SUFFICES ASSUME ~IsBatch(u)'
               PROVE  Projects(u)'
    OBVIOUS
  <2>1. ~IsBatch(u) /\ tasks[u].op \in DOMAIN ops
    BY <1>4, OperationOf DEF IsBatch
  <2> DEFINE o == tasks[u].op
  <2>2. ops'[o].kind = ops[o].kind /\ ops'[o].docs = ops[o].docs /\ tasks'[u].op = o
    BY <1>2, <1>4, <2>1
  <2>3. Projects(u)
    BY <1>3, <2>1
  <2>4. tasks'[u].pc \in Projecting => Active' # {}
    BY <1>4, <2>3 DEF Projects
  <2>5. ASSUME tasks'[u].pc \in Projecting \ {"complete"}, NEW d \in ops[o].docs, NEW n \in Active
        PROVE  Held(n, d)' \/ (ops[o].kind = "DOCUMENT_UPSERT" /\ n = tasks[u].gen)
    <3>1. Held(n, d) \/ (ops[o].kind = "DOCUMENT_UPSERT" /\ n = tasks[u].gen)
      BY <1>4, <2>3, <2>5 DEF Projects
    <3> QED BY <1>5, <1>6, <2>1, <3>1
  <2>6. tasks'[u].pc = "complete" => \A d \in ops[o].docs, n \in Active : Held(n, d)'
    BY <1>4, <1>5, <1>6, <2>1, <2>3 DEF Projects, Shown
  <2>7. tasks'[u].pc = "write" => \A d \in ops[o].docs : tasks'[u].read[d].version > 0
    BY <1>4, <2>3 DEF Projects
  <2>8. tasks'[u].pc = "complete" => Shown(tasks[u].op)'
    <3>1. "complete" \in Projecting
      BY DEF Projecting
    <3> QED BY <2>2, <2>4, <2>6, <3>1 DEF Shown
  <2> QED BY <1>4, <2>2, <2>4, <2>5, <2>7, <2>8 DEF Projects
<1>8. Fills(u)'
  <2> SUFFICES ASSUME tasks'[u].pc \in Filled, NEW o \in DOMAIN ops, Reached(o)' \/ o = tasks[u].op,
                      NEW d \in ops[o].docs
               PROVE  Held(tasks[u].gen, d)'
    <3>1. tasks'[u].op = tasks[u].op /\ DOMAIN ops' = DOMAIN ops
      BY <1>2, <1>4
    <3>2. \A o \in DOMAIN ops : ops'[o].docs = ops[o].docs
      BY <1>2
    <3> QED BY <3>1, <3>2 DEF Fills, Filled
  <2>1. tasks[u].pc \in Filled
    BY <1>4
  <2>2. Reached(o) \/ o = tasks[u].op
    <3>1. CASE ops'[o].status = "COMPLETED"
      BY <3>1 DEF Reached, Projecting
    <3>2. ASSUME NEW v \in TaskIds, tasks'[v].op = o, tasks'[v].pc \in Projecting
          PROVE  Reached(o)
      <4>1. tasks[v].op = o
        BY <1>1, <3>2
      <4>2. v # t => tasks[v].pc \in Projecting
        BY <1>1, <3>2
      <4>3. v = t => tasks[v].pc \in Projecting
        BY <2>1, <3>2
      <4> QED BY <4>1, <4>2, <4>3 DEF Reached
    <3> QED BY <1>1, <3>1, <3>2 DEF Reached
  <2>3. PICK n \in Generations : n = tasks[u].gen
    BY <2>1, TaskRow DEF Filled, Placed, Building
  <2>4. Held(n, d) /\ d \in MatterDocs
    BY <1>3, <1>6, <2>1, <2>2, <2>3 DEF Fills, Filled
  <2>5. Held(n, d)'
    BY <2>1, <2>3, <2>4 DEF Keeps
  <2>6. tasks'[u].gen = n
    BY <1>4, <2>3
  <2> QED BY <2>5, <2>6 DEF Held, Exists, Missing, Absent
<1>9. Rebuilds(u)'
  <2>1. Forced(u)' <=> Forced(u)
    <3>1. CASE IsBatch(u)
      BY <1>4, <3>1 DEF Forced, IsBatch
    <3>2. CASE ~IsBatch(u)
      <4>1. tasks[u].op \in DOMAIN ops
        BY <3>2, OperationOf
      <4> QED BY <1>2, <1>4, <4>1 DEF Forced, IsBatch
    <3> QED BY <3>1, <3>2
  <2>2. (tasks'[u].pc \in Building /\ Active' # {}) => Forced(u)'
    BY <1>3, <1>4, <2>1 DEF Rebuilds
  <2>3. ASSUME Forced(u), tasks[u].pc \notin Ended
        PROVE  /\ ops'[tasks[u].op].status # "COMPLETED"
               /\ \A v \in TaskIds : (tasks'[v].op = tasks[u].op /\ tasks'[v].pc \notin Ended) => v = u
    <3>1. /\ ops[tasks[u].op].status # "COMPLETED"
          /\ \A v \in TaskIds : (tasks[v].op = tasks[u].op /\ tasks[v].pc \notin Ended) => v = u
      BY <1>3, <2>3 DEF Rebuilds
    <3>2. tasks[t].op # tasks[u].op
      BY <3>1
    <3>3. tasks[u].op \in DOMAIN ops
      BY <2>3, OperationOf DEF Forced
    <3> QED BY <1>1, <3>1, <3>2, <3>3
  <2> QED BY <1>1, <1>4, <2>1, <2>2, <2>3 DEF Rebuilds
<1> QED BY <1>7, <1>8, <1>9

\* A step of a task keeps the invariant when it does not disturb the others, and the task
\* itself has projected what its next step relies on.
LEMMA ContentKept ==
  ASSUME ProjectionTyped, ContentInv, NEW t \in TaskIds, Stepped(t), Active' = Active,
         \A n \in Active : Keeps(n),
         \A u \in TaskIds \ {t}, n \in Generations : (tasks[u].pc \in Filled /\ n = tasks[u].gen) => Keeps(n),
         tasks'[t].pc \in Projecting =>
            tasks[t].pc \in Projecting \/ \A u \in TaskIds \ {t} : tasks[u].pc \notin Filled,
         \A o \in DOMAIN ops : ops'[o].status = "COMPLETED" =>
            ops[o].status = "COMPLETED" \/ (o = tasks[t].op /\ tasks[t].pc = "complete"),
         tasks[t].pc \notin Ended,
         ~IsBatch(t) => Projects(t)', Fills(t)',
         (tasks'[t].pc \in Building /\ Active # {}) => Forced(t),
         (Forced(t) /\ tasks'[t].pc \notin Ended) => ops'[tasks[t].op].status # "COMPLETED",
         Active # {} => alias' = alias \/ alias' = Active \/ Repairing(t)',
         Repairing(t) => Repairing(t)' \/ alias' = Active
  PROVE  ContentInv'
<1>1. /\ TaskIds' = TaskIds /\ \A v \in TaskIds : v # t => tasks'[v] = tasks[v]
      /\ \A v \in TaskIds : tasks'[v].op = tasks[v].op
  BY TaskMoved DEF Stepped
<1>2. /\ DOMAIN ops' = DOMAIN ops /\ UNCHANGED <<documents, version>>
      /\ \A o \in DOMAIN ops : /\ ops'[o].kind = ops[o].kind /\ ops'[o].docs = ops[o].docs
                               /\ ops'[o].since = ops[o].since
  BY DEF Stepped, KeepsOperations
<1>3. \A o \in DOMAIN ops : ops[o].docs \subseteq MatterDocs
  BY OperationRow
<1>4. \A u \in TaskIds : u # t => (~IsBatch(u) => Projects(u))' /\ Fills(u)' /\ Rebuilds(u)'
  BY ContentOthers
<1>5. IsBatch(t)' <=> IsBatch(t)
  BY <1>1 DEF IsBatch
<1>6. Forced(t)' <=> Forced(t)
  <2>1. CASE IsBatch(t)
    BY <1>5, <2>1 DEF Forced
  <2>2. CASE ~IsBatch(t)
    <3>1. tasks[t].op \in DOMAIN ops /\ tasks'[t].op = tasks[t].op
      BY <1>1, <2>2, OperationOf
    <3> QED BY <1>2, <1>5, <3>1 DEF Forced
  <2> QED BY <2>1, <2>2
<1>7. Rebuilds(t)'
  <2>1. ASSUME Forced(t), NEW v \in TaskIds, tasks[v].op = tasks[t].op, tasks'[v].pc \notin Ended
        PROVE  v = t
    <3>1. Rebuilds(t)
      BY DEF ContentInv
    <3>2. v # t => tasks[v].pc \notin Ended
      BY <1>1, <2>1
    <3> QED BY <2>1, <3>1, <3>2 DEF Rebuilds
  <2>2. (tasks'[t].pc \in Building /\ Active' # {}) => Forced(t)'
    BY <1>6
  <2>3. (Forced(t)' /\ tasks'[t].pc \notin Ended) => ops'[tasks'[t].op].status # "COMPLETED"
    BY <1>1, <1>6
  <2>4. Forced(t)' => \A v \in TaskIds : (tasks'[v].op = tasks'[t].op /\ tasks'[v].pc \notin Ended) => v = t
    BY <1>1, <1>6, <2>1
  <2> QED BY <1>1, <2>2, <2>3, <2>4 DEF Rebuilds
<1>8. ASSUME NEW o \in DOMAIN ops, ops'[o].status = "COMPLETED"
      PROVE  Shown(o)'
  <2>1. Shown(o)
    <3>1. CASE ops[o].status = "COMPLETED"
      BY <3>1 DEF ContentInv
    <3>2. CASE o = tasks[t].op /\ tasks[t].pc = "complete"
      BY <3>2, OperationOf DEF ContentInv, Projects
    <3> QED BY <1>8, <3>1, <3>2
  <2>2. \A d \in ops[o].docs, n \in Active : Held(n, d) => Held(n, d)'
    BY <1>3 DEF Keeps
  <2>3. \A d \in ops[o].docs : Active # {} /\ \A n \in Active : Held(n, d)'
    BY <2>1, <2>2 DEF Shown
  <2>4. ops'[o].docs = ops[o].docs
    BY <1>2
  <2> QED BY <2>3, <2>4 DEF Shown
<1>9. ASSUME Active # {}
      PROVE  alias' = Active \/ \E u \in TaskIds : Repairing(u)'
  <2>1. CASE alias' = Active \/ Repairing(t)'
    BY <2>1
  <2>2. CASE alias' = alias /\ alias = Active
    BY <2>2
  <2>3. CASE \E u \in TaskIds : Repairing(u)
    <3>1. PICK u \in TaskIds : Repairing(u)
      BY <2>3
    <3>2. CASE u = t
      BY <3>1, <3>2
    <3>3. CASE u # t
      <4>1. tasks'[u] = tasks[u] /\ tasks[u].op \in DOMAIN ops
        BY <1>1, <3>1, <3>3, OperationOf DEF Repairing, Forced
      <4>2. Repairing(u)'
        BY <1>2, <3>1, <4>1 DEF Repairing, Forced, IsBatch
      <4> QED BY <4>2
    <3> QED BY <3>2, <3>3
  <2> QED BY <1>9, <2>1, <2>2, <2>3 DEF ContentInv
<1>10. \A o \in DOMAIN ops' : ops'[o].kind = "SCHEMA_SYNC" => ops'[o].docs = {}
  BY <1>2 DEF ContentInv
<1>11. \A o \in DOMAIN ops' : \A d \in ops'[o].docs : version'[d] > 0 /\ d \in ToSet(documents')
  BY <1>2 DEF ContentInv
<1>12. \A d \in MatterDocs : version'[d] > 0 => \E o \in DOMAIN ops' : d \in ops'[o].docs /\ ops'[o].since[d] = 1
  BY <1>2 DEF ContentInv
<1>13. \A u \in TaskIds' : (~IsBatch(u) => Projects(u))' /\ Fills(u)' /\ Rebuilds(u)'
  <2>1. (~IsBatch(t) => Projects(t))'
    BY <1>5
  <2> QED BY <1>1, <1>4, <1>7, <2>1
<1>14. \A o \in DOMAIN ops' : ops'[o].status = "COMPLETED" => Shown(o)'
  BY <1>2, <1>8
<1>15. Active' # {} => (alias' = Active' \/ \E u \in TaskIds' : Repairing(u)')
  BY <1>1, <1>9
<1> QED BY <1>10, <1>11, <1>12, <1>13, <1>14, <1>15 DEF ContentInv

LEMMA ForcedKept ==
  ASSUME ProjectionTyped, NEW t \in TaskIds, Stepped(t)
  PROVE  (Forced(t)' <=> Forced(t)) /\ (IsBatch(t)' <=> IsBatch(t)) /\ tasks'[t].op = tasks[t].op
<1>1. tasks'[t].op = tasks[t].op
  BY TaskMoved DEF Stepped
<1>2. \A o \in DOMAIN ops : ops'[o].kind = ops[o].kind
  BY DEF Stepped, KeepsOperations
<1>3. ~IsBatch(t) => tasks[t].op \in DOMAIN ops
  BY OperationOf
<1> QED BY <1>1, <1>2, <1>3 DEF Forced, IsBatch

\* The operation of a task with this status, or with the one it had.
LEMMA StatusIs ==
  ASSUME ProjectionTyped, ContentInv, NEW t \in TaskIds, NEW s, s # "COMPLETED",
         Statuses(t, s) \/ UNCHANGED ops, tasks[t].pc \notin Ended
  PROVE  /\ \A o \in DOMAIN ops : ops'[o].status = "COMPLETED" => ops[o].status = "COMPLETED"
         /\ Forced(t) => ops'[tasks[t].op].status # "COMPLETED"
<1>1. Forced(t) => tasks[t].op \in DOMAIN ops /\ ops[tasks[t].op].status # "COMPLETED"
  BY OperationOf DEF ContentInv, Rebuilds, Forced
<1> QED BY <1>1 DEF Statuses

\* A task that starts again, waits or ends, without having disturbed the index.
LEMMA ContentIdle ==
  ASSUME ProjectionTyped, ContentInv, NEW t \in TaskIds, Stepped(t), Active' = Active, UNCHANGED alias,
         Grown, tasks'[t].pc \notin Projecting \cup Building, tasks[t].pc \notin Ended,
         \A o \in DOMAIN ops : ops'[o].status = "COMPLETED" =>
            ops[o].status = "COMPLETED" \/ (o = tasks[t].op /\ tasks[t].pc = "complete"),
         (Forced(t) /\ tasks'[t].pc \notin Ended) => ops'[tasks[t].op].status # "COMPLETED",
         Repairing(t) => tasks'[t].pc \in {"begin", "ensure", "error"}
  PROVE  ContentInv'
<1>1. \A n \in Generations : Keeps(n)
  BY DEF Grown, Keeps
<1>2. \A n \in Active : Keeps(n)
  BY <1>1 DEF Active
<1>3. Projects(t)'
  BY DEF Projects, Projecting
<1>4. Fills(t)'
  BY DEF Fills, Building
<1>5. Repairing(t) => Repairing(t)'
  BY ForcedKept DEF Repairing
<1>6. \A u \in TaskIds \ {t}, n \in Generations : (tasks[u].pc \in Filled /\ n = tasks[u].gen) => Keeps(n)
  BY <1>1
<1> QED BY <1>2, <1>3, <1>4, <1>5, <1>6, ContentKept

\* A task that has failed.
LEMMA ContentRestarts ==
  ASSUME ProjectionTyped, ContentInv, NEW t \in TaskIds, Stepped(t), Active' = Active, UNCHANGED alias,
         Grown, tasks'[t].pc \in {"begin", "error"}, tasks[t].pc \notin Ended,
         Statuses(t, "FAILED") \/ UNCHANGED ops
  PROVE  ContentInv'
<1>1. /\ \A o \in DOMAIN ops : ops'[o].status = "COMPLETED" => ops[o].status = "COMPLETED"
      /\ Forced(t) => ops'[tasks[t].op].status # "COMPLETED"
  BY StatusIs
<1>2. tasks'[t].pc \notin Projecting \cup Building
  BY DEF Projecting, Tidying, Building
<1> QED BY <1>1, <1>2, ContentIdle

LEMMA ContentBegin ==
  ASSUME ProjectionTyped, ContentInv, NEW t \in TaskIds, Begin(t)
  PROVE  ContentInv'
<1>1. Stepped(t) /\ Active' = Active /\ UNCHANGED alias /\ Grown /\ tasks[t].pc \notin Ended
  BY BeginStep, IndexKept DEF Ended
<1>2. CASE ops' = ops /\ tasks'[t].pc = "done" /\ ~IsBatch(t) /\ ops[tasks[t].op].status = "COMPLETED"
  <2>1. ~Forced(t)
    BY <1>1, <1>2 DEF ContentInv, Rebuilds
  <2>2. tasks'[t].pc \notin Projecting \cup Building
    BY <1>2 DEF Projecting, Tidying, Building
  <2> QED BY <1>1, <1>2, <2>1, <2>2, ContentIdle DEF Repairing
<1>3. CASE Statuses(t, "RUNNING") /\ tasks'[t].pc = "ensure"
  <2>1. /\ \A o \in DOMAIN ops : ops'[o].status = "COMPLETED" => ops[o].status = "COMPLETED"
        /\ Forced(t) => ops'[tasks[t].op].status # "COMPLETED"
    BY <1>1, <1>3, StatusIs
  <2>2. tasks'[t].pc \notin Projecting \cup Building
    BY <1>3 DEF Projecting, Tidying, Building
  <2> QED BY <1>1, <1>3, <2>1, <2>2, ContentIdle
<1> QED BY <1>2, <1>3, BeginStep

\* What the next step of a workflow relies on when it has the active index: a schema's
\* synchronization has no documents, an upsert writes its own.
LEMMA ContentEnsureCurrent ==
  ASSUME ProjectionTyped, AliasInv, ContentInv, NEW t \in TaskIds, NEW n \in Active,
         At(t, "ensure"), LockFree, EnsureCurrent(t, n)
  PROVE  ContentInv'
<1>1. Stepped(t) /\ Active' = Active /\ ~Forced(t) /\ tasks[t].pc \notin Ended /\ Active = {n}
  BY EnsureCurrentStep, ActiveIs DEF At, Ended
<1>2. CASE UNCHANGED <<gens, index, alias>> /\ Statuses(t, "FAILED") /\ tasks'[t].pc \in {"begin", "error"}
  BY <1>1, <1>2, IndexKept, ContentRestarts
<1>3. CASE /\ UNCHANGED ops /\ tasks'[t].pc = Work(t) /\ tasks'[t].gen = n
           /\ alias' = {n} /\ index'[n] = index[n]
  <2>1. \A u \in TaskIds \ {t} : tasks[u].pc \notin Filled
    BY OthersApart DEF Filled, Locking
  <2>2. \A m \in Active : Keeps(m)
    BY <1>1, <1>3 DEF Keeps, Held, Exists, Missing, Absent
  <2>3. tasks'[t].op = tasks[t].op
    BY <1>1, ForcedKept
  <2>4. tasks'[t].pc \in {"relock", "read", "complete"}
    BY <1>3, WorkIs
  <2>5. ~IsBatch(t) => Projects(t)'
    <3> SUFFICES ASSUME ~IsBatch(t)
                 PROVE  Projects(t)'
      OBVIOUS
    <3>1. tasks[t].op \in DOMAIN ops /\ ops[tasks[t].op].kind \in {"DOCUMENT_UPSERT", "SCHEMA_SYNC"}
      BY <1>1, OperationOf, OperationRow DEF Forced, OperationKinds
    <3>2. CASE ops[tasks[t].op].kind = "DOCUMENT_UPSERT"
      <4>1. tasks'[t].pc = "read"
        BY <1>3, <3>2, WorkIs
      <4> QED BY <1>1, <1>3, <2>3, <3>2, <4>1 DEF Projects
    <3>3. CASE ops[tasks[t].op].kind = "SCHEMA_SYNC"
      <4>1. tasks'[t].pc = "complete" /\ ops[tasks[t].op].docs = {}
        BY <1>3, <3>1, <3>3, WorkIs DEF ContentInv
      <4> QED BY <1>1, <1>3, <2>3, <4>1 DEF Projects, Shown
    <3> QED BY <3>1, <3>2, <3>3
  <2>6. Fills(t)' /\ tasks'[t].pc \notin Building
    BY <2>4 DEF Fills, Building
  <2> QED BY <1>1, <1>3, <2>1, <2>2, <2>5, <2>6, ContentKept
<1> QED BY <1>2, <1>3, EnsureCurrentStep

LEMMA ContentEnsureInPlace ==
  ASSUME ProjectionTyped, AliasInv, ContentInv, NEW t \in TaskIds, NEW n \in Active,
         At(t, "ensure"), LockFree, EnsureInPlace(t, n)
  PROVE  ContentInv'
<1>1. /\ Stepped(t) /\ Active' = Active /\ ~Forced(t) /\ tasks[t].pc \notin Ended /\ Active = {n}
      /\ UNCHANGED <<index, alias>> /\ Grown
  BY EnsureInPlaceStep, ActiveIs, IndexKept DEF At, Ended
<1>2. CASE Statuses(t, "FAILED") /\ tasks'[t].pc \in {"begin", "error"}
  BY <1>1, <1>2, ContentRestarts
<1>3. CASE tasks'[t].pc = "list" /\ tasks'[t].gen = n /\ UNCHANGED ops
  <2>1. \A u \in TaskIds \ {t} : tasks[u].pc \notin Filled
    BY OthersApart DEF Filled, Locking
  <2>2. \A m \in Active : Keeps(m)
    BY <1>1 DEF Grown, Keeps, Active
  <2>3. tasks'[t].op = tasks[t].op
    BY <1>1, ForcedKept
  <2>4. ~IsBatch(t) => Projects(t)'
    <3> SUFFICES ASSUME ~IsBatch(t)
                 PROVE  Projects(t)'
      OBVIOUS
    <3>1. tasks[t].op \in DOMAIN ops /\ ops[tasks[t].op].kind \in {"DOCUMENT_UPSERT", "SCHEMA_SYNC"}
      BY <1>1, OperationOf, OperationRow DEF Forced, OperationKinds
    <3>2. ops[tasks[t].op].kind = "DOCUMENT_UPSERT" \/ ops[tasks[t].op].docs = {}
      BY <3>1 DEF ContentInv
    <3> QED BY <1>1, <1>3, <2>3, <3>2 DEF Projects
  <2>5. Fills(t)' /\ tasks'[t].pc \notin Building
    BY <1>3 DEF Fills, Building
  <2> QED BY <1>1, <1>3, <2>1, <2>2, <2>4, <2>5, ContentKept DEF Repairing
<1> QED BY <1>2, <1>3, EnsureInPlaceStep

LEMMA ContentEnsureRefuses ==
  ASSUME ProjectionTyped, ContentInv, NEW t \in TaskIds, NEW n \in Active,
         At(t, "ensure"), EnsureRefuses(t, n)
  PROVE  ContentInv'
<1>1. /\ Stepped(t) /\ Active' = Active /\ ~Forced(t) /\ tasks[t].pc \notin Ended
      /\ UNCHANGED <<gens, index, alias>> /\ Grown
  BY EnsureRefusesStep, IndexKept DEF At, Ended
<1>2. CASE Statuses(t, "FAILED") /\ tasks'[t].pc \in {"begin", "error"}
  BY <1>1, <1>2, ContentRestarts
<1>3. CASE tasks'[t].pc = "done" /\ Statuses(t, "AWAITING_USER")
  <2>1. \A o \in DOMAIN ops : ops'[o].status = "COMPLETED" => ops[o].status = "COMPLETED"
    BY <1>1, <1>3, StatusIs
  <2>2. tasks'[t].pc \notin Projecting \cup Building
    BY <1>3 DEF Projecting, Tidying, Building
  <2> QED BY <1>1, <1>3, <2>1, <2>2, ContentIdle DEF Repairing
<1> QED BY <1>2, <1>3, EnsureRefusesStep

LEMMA ContentEnsureCreates ==
  ASSUME ProjectionTyped, AliasInv, ContentInv, NEW t \in TaskIds,
         At(t, "ensure"), LockFree, EnsureCreates(t)
  PROVE  ContentInv'
<1>1. /\ Stepped(t) /\ Active' = Active /\ (Active = {} \/ Forced(t)) /\ UNCHANGED <<gens, alias, ops>>
      /\ tasks'[t].pc = "fill" /\ gens[tasks'[t].gen].status = "NONE"
      /\ \A n \in Generations : n # tasks'[t].gen => index'[n] = index[n]
      /\ tasks[t].pc \notin Ended
  BY EnsureCreatesStep DEF At, Ended
<1>2. \A u \in TaskIds \ {t} : tasks[u].pc \notin Filled
  BY OthersApart DEF Filled, Locking
<1>3. ASSUME NEW n \in Active
      PROVE  Keeps(n)
  <2>1. n \in Generations /\ n # tasks'[t].gen
    BY <1>1 DEF Active
  <2>2. index'[n] = index[n]
    BY <1>1, <2>1
  <2> QED BY <2>2 DEF Keeps, Held, Exists, Missing, Absent
<1>4. Projects(t)' /\ Fills(t)'
  BY <1>1 DEF Projects, Fills, Projecting, Tidying
<1>5. Forced(t) => ops'[tasks[t].op].status # "COMPLETED"
  BY <1>1 DEF ContentInv, Rebuilds
<1>6. Repairing(t) => Repairing(t)'
  BY <1>1, ForcedKept DEF Repairing, Building
<1>7. tasks'[t].pc \notin Projecting
  BY <1>1 DEF Projecting, Tidying
<1> QED BY <1>1, <1>2, <1>3, <1>4, <1>5, <1>6, <1>7, ContentKept

LEMMA ContentEnsure ==
  ASSUME ProjectionTyped, AliasInv, ContentInv, NEW t \in TaskIds, Ensure(t)
  PROVE  ContentInv'
BY ContentEnsureCurrent, ContentEnsureInPlace, ContentEnsureRefuses, ContentEnsureCreates DEF Ensure

\* A new index is filled with everything that was added to the matter.
LEMMA ContentFill ==
  ASSUME ProjectionTyped, AliasInv, ContentInv, NEW t \in TaskIds, Fill(t)
  PROVE  ContentInv'
<1>1. /\ Stepped(t) /\ Active' = Active /\ UNCHANGED <<gens, alias, ops>>
      /\ tasks[t].pc = "fill" /\ tasks'[t].pc = "switch" /\ tasks'[t].gen = tasks[t].gen
      /\ Grown /\ tasks[t].gen \in Generations
  BY FillStep
<1>2. \A n \in Generations : Keeps(n)
  BY <1>1 DEF Grown, Keeps
<1>3. tasks'[t].pc \in Building /\ tasks'[t].pc \notin Projecting /\ tasks[t].pc \in Building
      /\ tasks[t].pc \notin Ended
  BY <1>1 DEF Building, Projecting, Tidying, Ended
<1>4. Projects(t)'
  BY <1>1, <1>3 DEF Projects
<1>5. Fills(t)'
  <2>1. PICK n \in Generations : n = tasks[t].gen
    BY <1>1
  <2>2. \A d \in MatterDocs : (d \in ToSet(documents) /\ version[d] > 0) => Held(n, d)'
    BY <2>1, FillStep
  <2>3. \A o \in DOMAIN ops : \A d \in ops[o].docs :
           d \in MatterDocs /\ version[d] > 0 /\ d \in ToSet(documents)
    BY OperationRow DEF ContentInv
  <2>4. \A o \in DOMAIN ops : \A d \in ops[o].docs : Held(n, d)'
    BY <2>2, <2>3
  <2>5. tasks'[t].gen = n /\ ops' = ops
    BY <1>1, <2>1
  <2>6. \A o \in DOMAIN ops' : \A d \in ops'[o].docs : Held(tasks[t].gen, d)'
    BY <2>4, <2>5 DEF Held, Exists, Missing, Absent
  <2> QED BY <2>6 DEF Fills
<1>6. Rebuilds(t)
  BY DEF ContentInv
<1>7. (Forced(t) => ops'[tasks[t].op].status # "COMPLETED") /\ (Active # {} => Forced(t))
  BY <1>1, <1>3, <1>6 DEF Rebuilds
<1>8. Repairing(t) => Repairing(t)'
  BY <1>1, <1>3, ForcedKept DEF Repairing
<1>9. \A n \in Active : Keeps(n)
  BY <1>2 DEF Active
<1> QED BY <1>1, <1>2, <1>3, <1>4, <1>5, <1>7, <1>8, <1>9, ContentKept

LEMMA ContentSwitch ==
  ASSUME ProjectionTyped, AliasInv, ContentInv, NEW t \in TaskIds, SwitchAlias(t)
  PROVE  ContentInv'
<1>1. /\ Stepped(t) /\ UNCHANGED index /\ tasks[t].pc = "switch" /\ tasks[t].gen \in Generations
      /\ gens[tasks[t].gen].status = "NONE" => Active' = Active
  BY SwitchStep
<1>2. gens[tasks[t].gen].status = "NONE" /\ Active' = Active
  BY <1>1 DEF AliasInv, Sound, Building
<1>3. Grown /\ tasks[t].pc \in Building /\ tasks[t].pc \notin Ended
  BY <1>1, IndexKept DEF Building, Ended
<1>4. CASE UNCHANGED alias /\ Statuses(t, "FAILED") /\ tasks'[t].pc \in {"begin", "error"}
  BY <1>1, <1>2, <1>3, <1>4, ContentRestarts
<1>5. CASE /\ UNCHANGED <<gens, ops>> /\ tasks'[t].pc = "activate" /\ tasks'[t].gen = tasks[t].gen
  <2>1. tasks'[t].pc \in Building /\ tasks'[t].pc \notin Projecting
    BY <1>5 DEF Building, Projecting, Tidying
  <2>2. Projects(t)'
    BY <1>5, <2>1 DEF Projects
  <2>3. Fills(t)'
    <3>1. Fills(t) /\ tasks'[t].op = tasks[t].op /\ TaskIds' = TaskIds
      BY <1>1, ForcedKept, TaskMoved DEF ContentInv, Stepped
    <3>2. \A o \in DOMAIN ops : Reached(o)' => Reached(o)
      <4>1. \A u \in TaskIds : (tasks'[u].pc \in Projecting) =>
               tasks[u].pc \in Projecting /\ tasks'[u].op = tasks[u].op
        BY <1>1, <2>1, TaskMoved DEF Stepped
      <4> QED BY <1>5, <3>1, <4>1 DEF Reached
    <3>3. \A o \in DOMAIN ops : (Reached(o) \/ o = tasks[t].op) =>
             \A d \in ops[o].docs : Held(tasks[t].gen, d)
      BY <1>1, <3>1 DEF Fills
    <3>4. \A o \in DOMAIN ops : (Reached(o)' \/ o = tasks[t].op) =>
             \A d \in ops[o].docs : Held(tasks[t].gen, d)'
      BY <1>1, <1>5, <3>2, <3>3 DEF Held, Exists, Missing, Absent
    <3> QED BY <1>5, <3>1, <3>4 DEF Fills
  <2>4. \A n \in Generations : Keeps(n)
    BY <1>3 DEF Grown, Keeps
  <2>5. \A n \in Active : Keeps(n)
    BY <2>4 DEF Active
  <2>6. Rebuilds(t)
    BY DEF ContentInv
  <2>7. (Forced(t) => ops'[tasks[t].op].status # "COMPLETED") /\ (Active # {} => Forced(t))
    BY <1>3, <1>5, <2>6 DEF Rebuilds
  <2>8. Forced(t) => Repairing(t)'
    BY <1>1, <2>1, ForcedKept DEF Repairing
  <2>9. Repairing(t) => Repairing(t)'
    BY <2>8 DEF Repairing
  <2> QED BY <1>1, <1>2, <1>3, <1>5, <2>1, <2>2, <2>3, <2>4, <2>5, <2>7, <2>8, <2>9, ContentKept
<1> QED BY <1>4, <1>5, SwitchStep

\* The index that becomes active holds what all operations have projected.
LEMMA ContentActivate ==
  ASSUME ProjectionTyped, AliasInv, ContentInv, NEW t \in TaskIds, Activate(t)
  PROVE  ContentInv'
<1>1. /\ Stepped(t) /\ Active' = {tasks[t].gen} /\ UNCHANGED <<index, alias, ops>>
      /\ tasks[t].pc = "activate" /\ tasks[t].gen \in Generations
      /\ tasks'[t].pc = "list" /\ tasks'[t].gen = tasks[t].gen
  BY ActivateStep
<1>2. /\ TaskIds' = TaskIds /\ \A u \in TaskIds : u # t => tasks'[u] = tasks[u]
      /\ \A u \in TaskIds : tasks'[u].op = tasks[u].op
      /\ UNCHANGED <<documents, version>>
  BY <1>1, TaskMoved DEF Stepped
<1>3. PICK n \in Generations : n = tasks[t].gen
  BY <1>1
<1>4. \A o \in DOMAIN ops : (Reached(o) \/ o = tasks[t].op) => \A d \in ops[o].docs : Held(n, d)
  BY <1>1, <1>3 DEF ContentInv, Fills
<1>5. \A d : Held(n, d)' <=> Held(n, d)
  BY <1>1 DEF Held, Exists, Missing, Absent
<1>6. Active' = {n} /\ alias' = {n}
  BY <1>1, <1>3 DEF AliasInv, Sound
<1>7. \A u \in TaskIds \ {t} : tasks[u].pc \notin Building
  BY <1>1, OthersApart DEF Locking, Building
<1>8. \A o \in DOMAIN ops : (Reached(o) \/ o = tasks[t].op) => Shown(o)'
  <2>1. \A o \in DOMAIN ops : (Reached(o) \/ o = tasks[t].op) => \A d \in ops[o].docs : Held(n, d)'
    BY <1>4, <1>5
  <2> QED BY <1>1, <1>6, <2>1 DEF Shown, Held, Exists, Missing, Absent
<1>9. ASSUME NEW u \in TaskIds
      PROVE  (~IsBatch(u) => Projects(u))' /\ Fills(u)' /\ Rebuilds(u)'
  <2>1. IsBatch(u)' <=> IsBatch(u)
    BY <1>2 DEF IsBatch
  <2>2. ASSUME ~IsBatch(u), tasks'[u].pc \in Projecting
        PROVE  Projects(u)'
    <3>1. tasks[u].op \in DOMAIN ops
      BY <2>2, OperationOf
    <3>2. Reached(tasks[u].op) \/ u = t
      BY <1>2, <2>2 DEF Reached
    <3>3. Shown(tasks[u].op)'
      <4>1. PICK o \in DOMAIN ops : o = tasks[u].op
        BY <3>1
      <4>2. Shown(o)'
        BY <1>8, <3>2, <4>1
      <4>3. tasks'[u].op = o
        BY <1>2, <4>1
      <4> QED BY <4>2, <4>3 DEF Shown
    <3>4. tasks'[u].pc = "write" => tasks[u].pc = "write" /\ tasks'[u].read = tasks[u].read
      BY <1>1, <1>2
    <3>5. tasks'[u].pc = "write" => \A d \in ops[tasks[u].op].docs : tasks'[u].read[d].version > 0
      BY <2>2, <3>4 DEF ContentInv, Projects
    <3>6. \A d \in ops'[tasks'[u].op].docs, m \in Active' : Held(m, d)'
      BY <3>3 DEF Shown
    <3>7. Active' # {}
      BY <1>6
    <3> QED BY <1>1, <1>2, <3>3, <3>5, <3>6, <3>7 DEF Projects
  <2>3. tasks'[u].pc \notin Projecting => Projects(u)'
    BY DEF Projects, Projecting
  <2>4. tasks'[u].pc \notin Building
    BY <1>1, <1>2, <1>7 DEF Building
  <2>5. Fills(u)'
    BY <2>4 DEF Fills, Building
  <2>6. Rebuilds(u)'
    <3>1. Rebuilds(u)
      BY DEF ContentInv
    <3>2. \A v \in TaskIds : tasks'[v].pc \notin Ended => tasks[v].pc \notin Ended
      BY <1>1, <1>2 DEF Ended
    <3>3. Forced(u)' <=> Forced(u)
      BY <1>1, <1>2, <2>1 DEF Forced
    <3> QED BY <1>1, <1>2, <2>4, <3>1, <3>2, <3>3 DEF Rebuilds
  <2> QED BY <2>1, <2>2, <2>3, <2>5, <2>6
<1>10. \A o \in DOMAIN ops : ops[o].status = "COMPLETED" => Shown(o)'
  BY <1>8 DEF Reached
<1>11. \A o \in DOMAIN ops' : ops'[o].status = "COMPLETED" => Shown(o)'
  BY <1>1, <1>10
<1>12. Active' # {} => (alias' = Active' \/ \E u \in TaskIds' : Repairing(u)')
  BY <1>6
<1>13. /\ \A o \in DOMAIN ops' : ops'[o].kind = "SCHEMA_SYNC" => ops'[o].docs = {}
       /\ \A o \in DOMAIN ops' : \A d \in ops'[o].docs : version'[d] > 0 /\ d \in ToSet(documents')
       /\ \A d \in MatterDocs : version'[d] > 0 => \E o \in DOMAIN ops' : d \in ops'[o].docs /\ ops'[o].since[d] = 1
  BY <1>1, <1>2 DEF ContentInv
<1>14. \A u \in TaskIds' : (~IsBatch(u) => Projects(u))' /\ Fills(u)' /\ Rebuilds(u)'
  BY <1>2, <1>9
<1> QED BY <1>11, <1>12, <1>13, <1>14 DEF ContentInv

LEMMA ContentTidy ==
  ASSUME ProjectionTyped, AliasInv, ContentInv, NEW t \in TaskIds,
         ListObsolete(t) \/ Tidy(t) \/ TidyFails(t)
  PROVE  ContentInv'
<1>1. tasks[t].pc \in Tidying /\ Sound(t) /\ tasks[t].pc \notin Ended /\ tasks[t].pc \in Projecting \ {"complete"}
  BY DEF ListObsolete, Tidy, TidyFails, At, Tidying, AliasInv, Ended, Projecting
<1>2. Active = {tasks[t].gen} /\ alias = Active
  BY <1>1 DEF Sound
<1>3. \A u \in TaskIds \ {t} : tasks[u].pc \notin Filled
  BY <1>1, OthersApart DEF Filled, Building
<1>4. /\ Stepped(t) /\ Active' = Active /\ alias' = alias /\ UNCHANGED ops
      /\ \A n \in Active : index'[n] = index[n]
      /\ tasks'[t].pc = "tidy" \/ tasks'[t].pc = Work(t)
      /\ tasks'[t].gen = tasks[t].gen
  <2>1. CASE ListObsolete(t)
    BY <2>1, ListStep
  <2>2. CASE Tidy(t)
    <3>1. /\ Stepped(t) /\ UNCHANGED ops /\ tasks[t].pc = "tidy"
          /\ tasks'[t].pc = Work(t) /\ tasks'[t].gen = tasks[t].gen
          /\ Active' = Active \ tasks[t].doomed /\ alias' = alias \ tasks[t].doomed
          /\ \A n \in Generations \ tasks[t].doomed : index'[n] = index[n]
      BY <2>2, TidyStep
    <3>2. tasks[t].gen \notin tasks[t].doomed
      BY <1>1, <3>1 DEF Sound
    <3>3. Active' = Active /\ alias' = alias
      BY <1>2, <3>1, <3>2
    <3>4. \A n \in Active : index'[n] = index[n]
      BY <1>2, <3>1, <3>2 DEF Active
    <3> QED BY <3>1, <3>3, <3>4
  <2>3. CASE TidyFails(t)
    BY <2>3, TidyFailsStep
  <2> QED BY <2>1, <2>2, <2>3
<1>5. \A n \in Active : Keeps(n)
  BY <1>4 DEF Keeps, Held, Exists, Missing, Absent
<1>6. tasks'[t].op = tasks[t].op
  BY <1>4, ForcedKept
<1>7. tasks'[t].pc \in {"tidy", "relock", "read", "complete"}
  BY <1>4, WorkIs
<1>8. ASSUME ~IsBatch(t)
      PROVE  Projects(t)'
  <2>1. tasks[t].op \in DOMAIN ops
    BY <1>8, OperationOf
  <2>2. PICK o \in DOMAIN ops : o = tasks[t].op
    BY <2>1
  <2>3. \A d \in ops[o].docs, n \in Active : Held(n, d) \/ (ops[o].kind = "DOCUMENT_UPSERT" /\ n = tasks[t].gen)
    BY <1>1, <1>8, <2>2 DEF ContentInv, Projects
  <2>4. \A d \in ops[o].docs, n \in Active : Held(n, d) => Held(n, d)'
    BY <1>5, <2>2, OperationRow DEF Keeps
  <2>5. CASE tasks'[t].pc = "complete"
    <3>1. ops[o].kind # "DOCUMENT_UPSERT"
      <4>1. tasks'[t].pc = Work(t)
        BY <1>4, <2>5
      <4> QED BY <1>8, <2>2, <2>5, <4>1, WorkIs
    <3>2. \A d \in ops[o].docs, n \in Active : Held(n, d)'
      BY <2>3, <2>4, <3>1
    <3>3. ops' = ops /\ tasks'[t].op = o /\ Active' = Active /\ Active # {}
      BY <1>2, <1>4, <1>6, <2>2
    <3>4. Shown(tasks[t].op)'
      BY <3>2, <3>3 DEF Shown
    <3> QED BY <2>5, <3>3, <3>4 DEF Projects
  <2>6. CASE tasks'[t].pc # "complete"
    <3>1. \A d \in ops[o].docs, n \in Active :
             Held(n, d)' \/ (ops[o].kind = "DOCUMENT_UPSERT" /\ n = tasks[t].gen)
      BY <2>3, <2>4
    <3>2. ops' = ops /\ tasks'[t].op = o /\ Active' = Active /\ Active # {} /\ tasks'[t].gen = tasks[t].gen
      BY <1>2, <1>4, <1>6, <2>2
    <3> QED BY <1>7, <2>6, <3>1, <3>2 DEF Projects
  <2> QED BY <2>5, <2>6
<1>9. Fills(t)' /\ tasks'[t].pc \notin Building
  BY <1>7 DEF Fills, Building
<1>10. Forced(t) => ops'[tasks[t].op].status # "COMPLETED"
  BY <1>1, <1>4 DEF ContentInv, Rebuilds
<1>11. alias' = Active
  BY <1>2, <1>4
<1> QED BY <1>1, <1>3, <1>4, <1>5, <1>8, <1>9, <1>10, <1>11, ContentKept

LEMMA ContentRead ==
  ASSUME ProjectionTyped, ContentInv, NEW t \in TaskIds, ReadDocuments(t)
  PROVE  ContentInv'
<1>1. /\ Stepped(t) /\ Active' = Active /\ UNCHANGED <<gens, index, alias, ops>>
      /\ tasks[t].pc = "read" /\ tasks'[t].pc = "write" /\ tasks'[t].gen = tasks[t].gen
      /\ \A d \in MatterDocs : (d \in ops[tasks[t].op].docs /\ version[d] > 0)
                               => tasks'[t].read[d].version > 0
  BY ReadDocumentsStep
<1>2. /\ tasks[t].pc \notin Ended /\ tasks[t].pc \in Projecting \ {"complete"}
      /\ tasks'[t].pc \notin Building
  BY <1>1 DEF Ended, Projecting, Building
<1>3. \A n \in Generations : Keeps(n)
  BY <1>1 DEF Keeps, Held, Exists, Missing, Absent
<1>4. \A n \in Active : Keeps(n)
  BY <1>3 DEF Active
<1>5. tasks'[t].op = tasks[t].op
  BY <1>1, ForcedKept
<1>6. ASSUME ~IsBatch(t)
      PROVE  Projects(t)'
  <2>1. PICK o \in DOMAIN ops : o = tasks[t].op
    BY <1>6, OperationOf
  <2>2. Active # {} /\ \A d \in ops[o].docs, n \in Active :
           Held(n, d) \/ (ops[o].kind = "DOCUMENT_UPSERT" /\ n = tasks[t].gen)
    BY <1>2, <1>6, <2>1 DEF ContentInv, Projects
  <2>3. \A d \in ops[o].docs : d \in MatterDocs /\ version[d] > 0
    BY <2>1, OperationRow DEF ContentInv
  <2>4. \A d \in ops[o].docs : tasks'[t].read[d].version > 0
    BY <1>1, <2>1, <2>3
  <2>5. \A d \in ops[o].docs, n \in Active :
           Held(n, d)' \/ (ops[o].kind = "DOCUMENT_UPSERT" /\ n = tasks[t].gen)
    BY <1>1, <2>2 DEF Held, Exists, Missing, Absent
  <2> QED BY <1>1, <1>5, <2>1, <2>2, <2>4, <2>5 DEF Projects
<1>7. Fills(t)'
  BY <1>1 DEF Fills
<1>8. Forced(t) => ops'[tasks[t].op].status # "COMPLETED"
  BY <1>1, <1>2 DEF ContentInv, Rebuilds
<1>9. ~Repairing(t)
  BY <1>1 DEF Repairing, Building
<1> QED BY <1>1, <1>2, <1>3, <1>4, <1>6, <1>7, <1>8, <1>9, ContentKept

LEMMA ContentWrite ==
  ASSUME ProjectionTyped, ContentInv, NEW t \in TaskIds, WriteDocuments(t)
  PROVE  ContentInv'
<1>1. /\ Stepped(t) /\ Active' = Active /\ UNCHANGED <<gens, alias, ops>>
      /\ tasks[t].pc = "write" /\ tasks'[t].pc \in {"complete", "begin", "error"} /\ Grown
      /\ \A n \in Generations, d \in MatterDocs :
            (n = tasks[t].gen /\ tasks[t].read[d].version > 0) => Held(n, d)'
  BY WriteDocumentsStep
<1>2. tasks[t].pc \notin Ended /\ tasks[t].pc \in Projecting \ {"complete"}
  BY <1>1 DEF Ended, Projecting
<1>3. CASE tasks'[t].pc \in {"begin", "error"}
  BY <1>1, <1>2, <1>3, ContentRestarts
<1>4. CASE tasks'[t].pc = "complete"
  <2>1. \A n \in Generations : Keeps(n)
    BY <1>1 DEF Grown, Keeps
  <2>2. \A n \in Active : Keeps(n)
    BY <2>1 DEF Active
  <2>3. tasks'[t].op = tasks[t].op
    BY <1>1, ForcedKept
  <2>4. ASSUME ~IsBatch(t)
        PROVE  Projects(t)'
    <3>1. PICK o \in DOMAIN ops : o = tasks[t].op
      BY <2>4, OperationOf
    <3>2. Active # {} /\ \A d \in ops[o].docs, n \in Active :
             Held(n, d) \/ (ops[o].kind = "DOCUMENT_UPSERT" /\ n = tasks[t].gen)
      BY <1>2, <2>4, <3>1 DEF ContentInv, Projects
    <3>3. \A d \in ops[o].docs : d \in MatterDocs /\ tasks[t].read[d].version > 0
      BY <1>1, <2>4, <3>1, OperationRow DEF ContentInv, Projects
    <3>4. \A d \in ops[o].docs, n \in Active : Held(n, d)'
      <4>1. SUFFICES ASSUME NEW d \in ops[o].docs, NEW n \in Active
                     PROVE  Held(n, d)'
        OBVIOUS
      <4>2. n \in Generations /\ d \in MatterDocs
        BY <3>3 DEF Active
      <4>3. CASE Held(n, d)
        BY <2>2, <4>2, <4>3 DEF Keeps
      <4>4. CASE n = tasks[t].gen
        BY <1>1, <3>3, <4>2, <4>4
      <4> QED BY <3>2, <4>3, <4>4
    <3>5. ops' = ops /\ tasks'[t].op = o
      BY <1>1, <2>3, <3>1
    <3>6. Shown(tasks[t].op)'
      BY <1>1, <3>2, <3>4, <3>5 DEF Shown
    <3> QED BY <1>1, <1>4, <3>2, <3>6 DEF Projects
  <2>5. Fills(t)' /\ tasks'[t].pc \notin Building
    BY <1>4 DEF Fills, Building
  <2>6. Forced(t) => ops'[tasks[t].op].status # "COMPLETED"
    BY <1>1, <1>2 DEF ContentInv, Rebuilds
  <2>7. ~Repairing(t)
    BY <1>1 DEF Repairing, Building
  <2> QED BY <1>1, <1>2, <2>1, <2>2, <2>4, <2>5, <2>6, <2>7, ContentKept
<1> QED BY <1>1, <1>3, <1>4

LEMMA ContentTask ==
  ASSUME ProjectionTyped, AliasInv, ContentInv, NEW t \in TaskIds,
         TaskStep(t) \/ TidyFails(t) \/ ServiceFails(t) \/ Crash(t)
  PROVE  ContentInv'
<1>1. CASE Complete(t)
  <2>1. /\ Stepped(t) /\ Active' = Active /\ UNCHANGED alias /\ Grown
        /\ tasks[t].pc = "complete" /\ tasks'[t].pc = "done" /\ Statuses(t, "COMPLETED")
    BY <1>1, CompleteStep, IndexKept
  <2>2. tasks[t].pc \notin Ended /\ tasks'[t].pc \notin Projecting \cup Building /\ tasks'[t].pc \in Ended
    BY <2>1 DEF Ended, Projecting, Tidying, Building
  <2>3. ~Repairing(t)
    BY <2>1 DEF Repairing, Building
  <2>4. \A o \in DOMAIN ops : ops'[o].status = "COMPLETED" => ops[o].status = "COMPLETED" \/ o = tasks[t].op
    BY <2>1 DEF Statuses
  <2> QED BY <2>1, <2>2, <2>3, <2>4, ContentIdle
<1>2. CASE UpdateMembers(t)
  <2>1. /\ Stepped(t) /\ Active' = Active /\ UNCHANGED alias /\ Grown /\ tasks[t].pc = "relock"
        /\ \/ tasks'[t].pc = "synced" /\ UNCHANGED ops
           \/ tasks'[t].pc \in {"begin", "error"} /\ Statuses(t, "FAILED")
    BY <1>2, UpdateMembersStep
  <2>2. tasks[t].pc \notin Ended /\ tasks'[t].pc \notin Projecting \cup Building
    BY <2>1 DEF Ended, Projecting, Tidying, Building
  <2>3. ~Repairing(t)
    BY <2>1 DEF Repairing, Building
  <2>4. Statuses(t, "FAILED") \/ UNCHANGED ops
    BY <2>1
  <2>5. /\ \A o \in DOMAIN ops : ops'[o].status = "COMPLETED" => ops[o].status = "COMPLETED"
        /\ Forced(t) => ops'[tasks[t].op].status # "COMPLETED"
    BY <2>2, <2>4, StatusIs
  <2> QED BY <2>1, <2>2, <2>3, <2>5, ContentIdle
<1>3. CASE CommitSynced(t)
  <2>1. /\ Stepped(t) /\ Active' = Active /\ UNCHANGED <<alias, ops>> /\ Grown
        /\ tasks[t].pc = "synced" /\ tasks'[t].pc = "done"
    BY <1>3, CommitSyncedStep, IndexKept
  <2>2. tasks[t].pc \notin Ended /\ tasks'[t].pc \notin Projecting \cup Building /\ tasks'[t].pc \in Ended
    BY <2>1 DEF Ended, Projecting, Tidying, Building
  <2>3. ~Repairing(t)
    BY <2>1 DEF Repairing, Building
  <2> QED BY <2>1, <2>2, <2>3, ContentIdle
<1>4. CASE ServiceFails(t)
  <2>1. tasks[t].pc \in Building => gens[tasks[t].gen].status = "NONE"
    BY DEF AliasInv, Sound
  <2>2. /\ Stepped(t) /\ Active' = Active /\ UNCHANGED alias /\ Grown /\ Statuses(t, "FAILED")
        /\ tasks'[t].pc \in {"begin", "error"}
        /\ tasks[t].pc \in {"ensure", "read", "write", "relock", "fill", "switch"}
    BY <1>4, <2>1, ServiceFailsStep, IndexKept
  <2>3. tasks[t].pc \notin Ended
    BY <2>2 DEF Ended
  <2> QED BY <2>2, <2>3, ContentRestarts
<1>5. CASE Crash(t)
  <2>1. /\ Stepped(t) /\ Active' = Active /\ UNCHANGED <<alias, ops>> /\ Grown
        /\ tasks'[t].pc = "begin" /\ tasks[t].pc \notin Ended
    BY <1>5, CrashStep, IndexKept
  <2> QED BY <2>1, ContentRestarts
<1> QED BY <1>1, <1>2, <1>3, <1>4, <1>5, ContentBegin, ContentEnsure, ContentFill, ContentSwitch,
        ContentActivate, ContentTidy, ContentRead, ContentWrite DEF TaskStep

LEMMA ContentCleanup ==
  ASSUME ProjectionTyped, AliasInv, ContentInv, CleanupScript
  PROVE  ContentInv'
<1>1. UNCHANGED <<documents, version, ops, tasks, alias>> /\ LockFree /\ Active' = Active /\ TaskIds' = TaskIds
  BY CleanupScriptStep DEF TaskIds
<1>2. PICK n \in Active : Active = {n} /\ alias = {n} /\ Exists(n) /\ index'[n] = index[n]
  BY CleanupScriptStep
<1>3. \A d : \A m \in Active : Held(m, d)' <=> Held(m, d)
  BY <1>2 DEF Held, Exists, Missing, Absent
<1>4. ASSUME NEW t \in TaskIds
      PROVE  (~IsBatch(t) => Projects(t))' /\ Fills(t)' /\ Rebuilds(t)'
  <2>1. (~IsBatch(t) => Projects(t)) /\ Rebuilds(t) /\ tasks[t].pc \notin Filled
    BY <1>1 DEF ContentInv, LockFree, Locking, Filled
  <2>2. \A o : Shown(o) => Shown(o)'
    BY <1>1, <1>3 DEF Shown
  <2>3. Fills(t)'
    BY <1>1, <2>1 DEF Fills, Filled
  <2>4. Rebuilds(t)'
    BY <1>1, <2>1 DEF Rebuilds, Forced, IsBatch
  <2>5. ASSUME ~IsBatch(t)
        PROVE  Projects(t)'
    <3>1. PICK o : o = tasks[t].op
      OBVIOUS
    <3>2. Projects(t)
      BY <2>1, <2>5
    <3>3. tasks[t].pc = "complete" => Shown(o)'
      BY <2>2, <3>1, <3>2 DEF Projects
    <3>4. tasks[t].pc = "complete" => Shown(tasks[t].op)'
      BY <1>1, <3>1, <3>3 DEF Shown
    <3> QED BY <1>1, <1>3, <3>2, <3>4 DEF Projects
  <2> QED BY <1>1, <2>3, <2>4, <2>5 DEF IsBatch
<1>5. \A o \in DOMAIN ops : ops[o].status = "COMPLETED" => Shown(o)'
  BY <1>1, <1>3 DEF ContentInv, Shown
<1>6. Active' # {} => alias' = Active'
  BY <1>1, <1>2
<1>7. /\ \A o \in DOMAIN ops' : ops'[o].kind = "SCHEMA_SYNC" => ops'[o].docs = {}
      /\ \A o \in DOMAIN ops' : \A d \in ops'[o].docs : version'[d] > 0 /\ d \in ToSet(documents')
      /\ \A d \in MatterDocs : version'[d] > 0 => \E o \in DOMAIN ops' : d \in ops'[o].docs /\ ops'[o].since[d] = 1
  BY <1>1 DEF ContentInv
<1>8. \A o \in DOMAIN ops' : ops'[o].status = "COMPLETED" => Shown(o)'
  BY <1>1, <1>5
<1>9. \A t \in TaskIds' : (~IsBatch(t) => Projects(t))' /\ Fills(t)' /\ Rebuilds(t)'
  BY <1>1, <1>4
<1> QED BY <1>6, <1>7, <1>8, <1>9 DEF ContentInv

\* A request keeps the invariant: what it queues is not in progress, and no rebuild gets a
\* second workflow.
LEMMA ContentRequested ==
  ASSUME ProjectionTyped, ContentInv, Requested, Active' = Active,
         \A o \in DOMAIN ops : \/ ops'[o].kind = ops[o].kind
                               \/ /\ ops'[o].kind = "REBUILD"
                                  /\ \A t \in TaskIds : tasks[t].op = o => tasks[t].pc \in Ended,
         \A o \in DOMAIN ops' : ops'[o].status = "COMPLETED" => o \in DOMAIN ops /\ ops[o].status = "COMPLETED",
         \A t \in TaskIds' \ TaskIds :
            (tasks'[t].op # 0 /\ ops'[tasks'[t].op].kind = "REBUILD") =>
               /\ ops'[tasks'[t].op].status # "COMPLETED"
               /\ \A u \in TaskIds : tasks[u].op = tasks'[t].op => tasks[u].pc \in Ended
               /\ \A u \in TaskIds' \ TaskIds : u = t,
         \A o \in DOMAIN ops' : ops'[o].kind = "SCHEMA_SYNC" => ops'[o].docs = {},
         \A o \in DOMAIN ops' : \A d \in ops'[o].docs : version'[d] > 0 /\ d \in ToSet(documents'),
         \A d \in MatterDocs : version'[d] > 0 => \E o \in DOMAIN ops' : d \in ops'[o].docs /\ ops'[o].since[d] = 1
  PROVE  ContentInv'
<1>1. /\ UNCHANGED <<gens, index, alias>>
      /\ \A t \in TaskIds : t \in TaskIds' /\ tasks'[t] = tasks[t]
      /\ \A t \in TaskIds' \ TaskIds : tasks'[t].pc = "queued"
      /\ \A o \in DOMAIN ops : /\ o \in DOMAIN ops' /\ ops'[o].docs = ops[o].docs
                               /\ ops'[o].since = ops[o].since
  BY DEF Requested
<1>2. \A n, d : Held(n, d)' <=> Held(n, d)
  BY <1>1 DEF Held, Exists, Missing, Absent
<1>3. "queued" \notin Ended \cup Projecting \cup Building
  BY DEF Ended, Projecting, Tidying, Building
<1>4. \A o \in DOMAIN ops : Shown(o)' <=> Shown(o)
  BY <1>1, <1>2 DEF Shown
<1>5. \A o \in DOMAIN ops : Reached(o)' => Reached(o)
  <2>1. \A t \in TaskIds' : tasks'[t].pc \in Projecting => t \in TaskIds /\ tasks'[t] = tasks[t]
    BY <1>1, <1>3
  <2> QED BY <1>1, <2>1 DEF Reached
<1>6. \A o \in DOMAIN ops' : Reached(o)' => o \in DOMAIN ops
  <2>1. SUFFICES ASSUME NEW o \in DOMAIN ops', NEW t \in TaskIds', tasks'[t].op = o, tasks'[t].pc \in Projecting
                 PROVE  o \in DOMAIN ops
    BY DEF Reached
  <2>2. t \in TaskIds /\ tasks[t].op = o
    BY <1>1, <1>3, <2>1
  <2>3. o # 0
    <3>1. ops' \in Seq(OperationRows)'
      BY DEF Requested, ProjectionTyped
    <3>2. DOMAIN ops' = 1..Len(ops')
      BY <3>1
    <3> QED BY <2>1, <3>2
  <2> QED BY <2>2, <2>3, OperationOf DEF IsBatch
<1>7. ASSUME NEW t \in TaskIds, tasks[t].pc \notin Ended
      PROVE  Forced(t)' <=> Forced(t)
  <2>1. CASE IsBatch(t)
    BY <1>1, <2>1 DEF Forced, IsBatch
  <2>2. CASE ~IsBatch(t)
    <3>1. PICK o \in DOMAIN ops : o = tasks[t].op
      BY <2>2, OperationOf
    <3>2. ops'[o].kind = ops[o].kind /\ tasks'[t] = tasks[t]
      BY <1>1, <1>7, <3>1
    <3> QED BY <3>1, <3>2 DEF Forced, IsBatch
  <2> QED BY <2>1, <2>2
<1>8. ASSUME NEW t \in TaskIds
      PROVE  (~IsBatch(t) => Projects(t))' /\ Fills(t)' /\ Rebuilds(t)'
  <2>1. (~IsBatch(t) => Projects(t)) /\ Fills(t) /\ Rebuilds(t) /\ tasks'[t] = tasks[t]
    BY <1>1, <1>8 DEF ContentInv
  <2>2. ASSUME ~IsBatch(t), tasks[t].pc \in Projecting
        PROVE  Projects(t)'
    <3>1. PICK o \in DOMAIN ops : o = tasks[t].op
      BY <2>2, OperationOf
    <3>2. tasks[t].pc \notin Ended
      BY <2>2 DEF Ended, Projecting, Tidying
    <3>3. ops'[o].kind = ops[o].kind /\ ops'[o].docs = ops[o].docs
      BY <1>1, <3>1, <3>2
    <3>4. Projects(t)
      BY <2>1, <2>2
    <3>5. tasks'[t].pc = "complete" => Shown(o)'
      BY <1>4, <2>1, <3>1, <3>4 DEF Projects
    <3>6. tasks'[t].pc = "complete" => Shown(tasks[t].op)'
      BY <2>1, <3>1, <3>5 DEF Shown
    <3>7. tasks'[t].pc \in Projecting \ {"complete"} => \A d \in ops[o].docs, n \in Active :
             Held(n, d)' \/ (ops[o].kind = "DOCUMENT_UPSERT" /\ n = tasks[t].gen)
      BY <1>2, <2>1, <3>1, <3>4 DEF Projects
    <3>8. Active # {}
      BY <2>2, <3>4 DEF Projects
    <3>9. tasks'[t].pc = "write" => \A d \in ops[o].docs : tasks'[t].read[d].version > 0
      BY <2>1, <3>1, <3>4 DEF Projects
    <3> QED BY <2>1, <3>1, <3>3, <3>6, <3>7, <3>8, <3>9 DEF Projects
  <2>3. tasks[t].pc \notin Projecting => Projects(t)'
    BY <2>1 DEF Projects, Projecting
  <2>4. (~IsBatch(t) => Projects(t))'
    BY <2>1, <2>2, <2>3 DEF IsBatch
  <2>5. Fills(t)'
    <3> SUFFICES ASSUME tasks[t].pc \in Filled, NEW o \in DOMAIN ops', Reached(o)' \/ o = tasks[t].op,
                        NEW d \in ops'[o].docs
                 PROVE  Held(tasks[t].gen, d)'
      BY <2>1 DEF Fills, Filled
    <3>1. o \in DOMAIN ops
      <4>1. o # 0
        <5>1. ops' \in Seq(OperationRows)'
          BY DEF Requested, ProjectionTyped
        <5>2. DOMAIN ops' = 1..Len(ops')
          BY <5>1
        <5> QED BY <5>2
      <4> QED BY <1>6, <4>1, OperationOf DEF IsBatch
    <3>2. Held(tasks[t].gen, d)
      BY <1>1, <1>5, <2>1, <3>1 DEF Fills, Filled
    <3> QED BY <1>1, <2>1, <3>2 DEF Held, Exists, Missing, Absent
  <2>6. Rebuilds(t)'
    <3>1. (tasks'[t].pc \in Building /\ Active' # {}) => Forced(t)'
      <4>1. tasks[t].pc \in Building => tasks[t].pc \notin Ended
        BY DEF Building, Ended
      <4> QED BY <1>7, <2>1, <4>1 DEF Rebuilds
    <3>2. ASSUME Forced(t)', tasks[t].pc \notin Ended
          PROVE  /\ ops'[tasks[t].op].status # "COMPLETED"
                 /\ \A u \in TaskIds' : (tasks'[u].op = tasks[t].op /\ tasks'[u].pc \notin Ended) => u = t
      <4>1. /\ Forced(t) /\ ops[tasks[t].op].status # "COMPLETED"
            /\ \A u \in TaskIds : (tasks[u].op = tasks[t].op /\ tasks[u].pc \notin Ended) => u = t
        BY <1>7, <2>1, <3>2 DEF Rebuilds
      <4>2. tasks[t].op \in DOMAIN ops /\ tasks[t].op # 0
        BY <4>1, OperationOf DEF Forced, IsBatch
      <4>3. ops'[tasks[t].op].status # "COMPLETED"
        BY <1>1, <4>1, <4>2
      <4>4. ops'[tasks[t].op].kind = "REBUILD"
        BY <2>1, <3>2 DEF Forced
      <4>5. \A u \in TaskIds' \ TaskIds : tasks'[u].op # tasks[t].op
        BY <3>2, <4>2, <4>4
      <4> QED BY <1>1, <4>1, <4>3, <4>5
    <3> QED BY <2>1, <3>1, <3>2 DEF Rebuilds
  <2> QED BY <2>4, <2>5, <2>6
<1>9. ASSUME NEW t \in TaskIds' \ TaskIds
      PROVE  (~IsBatch(t) => Projects(t))' /\ Fills(t)' /\ Rebuilds(t)'
  <2>1. tasks'[t].pc = "queued"
    BY <1>1
  <2>2. Projects(t)' /\ Fills(t)'
    BY <1>3, <2>1 DEF Projects, Fills
  <2>3. ASSUME Forced(t)'
        PROVE  /\ ops'[tasks'[t].op].status # "COMPLETED"
               /\ \A u \in TaskIds' : (tasks'[u].op = tasks'[t].op /\ tasks'[u].pc \notin Ended) => u = t
    <3>1. tasks'[t].op # 0 /\ ops'[tasks'[t].op].kind = "REBUILD"
      BY <2>3 DEF Forced, IsBatch
    <3> QED BY <1>1, <3>1
  <2> QED BY <1>3, <2>1, <2>2, <2>3 DEF Rebuilds
<1>10. \A o \in DOMAIN ops' : ops'[o].status = "COMPLETED" => Shown(o)'
  BY <1>4 DEF ContentInv
<1>11. Active' # {} => (alias' = Active' \/ \E t \in TaskIds' : Repairing(t)')
  <2>1. ASSUME NEW t \in TaskIds, Repairing(t)
        PROVE  Repairing(t)'
    <3>1. PICK o \in DOMAIN ops : o = tasks[t].op
      BY <2>1, OperationOf DEF Repairing, Forced
    <3>2. ops'[o].kind = "REBUILD" /\ tasks'[t] = tasks[t]
      BY <1>1, <2>1, <3>1 DEF Repairing, Forced
    <3> QED BY <2>1, <3>1, <3>2 DEF Repairing, Forced, IsBatch
  <2> QED BY <1>1, <2>1 DEF ContentInv
<1>12. \A t \in TaskIds' : (~IsBatch(t) => Projects(t))' /\ Fills(t)' /\ Rebuilds(t)'
  BY <1>8, <1>9
<1> QED BY <1>10, <1>11, <1>12 DEF ContentInv

\* An operation that is created belongs to no task yet.
LEMMA ContentCreated ==
  ASSUME ProjectionTyped, ContentInv, Requested, Active' = Active, NEW o \in Nat,
         o = Len(ops) + 1, DOMAIN ops' = DOMAIN ops \cup {o},
         ops'[o].status = "QUEUED", \A k \in DOMAIN ops : ops'[k] = ops[k],
         \A t \in TaskIds' \ TaskIds : tasks'[t].op = o /\ t = Len(tasks) + 1,
         ops'[o].kind = "SCHEMA_SYNC" => ops'[o].docs = {},
         \A k \in DOMAIN ops' : \A d \in ops'[k].docs : version'[d] > 0 /\ d \in ToSet(documents'),
         \A d \in MatterDocs : version'[d] > 0 => \E k \in DOMAIN ops' : d \in ops'[k].docs /\ ops'[k].since[d] = 1
  PROVE  ContentInv'
<1>1. \A t \in TaskIds : tasks[t].op # o
  <2>1. SUFFICES ASSUME NEW t \in TaskIds
                 PROVE  tasks[t].op # o
    OBVIOUS
  <2>2. tasks[t].op \in 0..Len(ops) /\ Len(ops) \in Nat
    BY TaskRow
  <2> QED BY <2>2
<1>2. \A k \in DOMAIN ops' : ops'[k].status = "COMPLETED" => k \in DOMAIN ops /\ ops[k].status = "COMPLETED"
  OBVIOUS
<1>3. \A k \in DOMAIN ops' : ops'[k].kind = "SCHEMA_SYNC" => ops'[k].docs = {}
  BY DEF ContentInv
<1>4. \A t \in TaskIds' \ TaskIds :
         /\ ops'[tasks'[t].op].status # "COMPLETED"
         /\ \A u \in TaskIds : tasks[u].op = tasks'[t].op => tasks[u].pc \in Ended
         /\ \A u \in TaskIds' \ TaskIds : u = t
  BY <1>1
<1>5. \A k \in DOMAIN ops : ops'[k].kind = ops[k].kind
  OBVIOUS
<1> QED BY <1>2, <1>3, <1>4, <1>5, ContentRequested

LEMMA ContentChangeDocument ==
  ASSUME ProjectionTyped, ContentInv, NEW d \in MatterDocs, ChangeDocument(d)
  PROVE  ContentInv'
<1>1. ops \in Seq(OperationRows) /\ Len(ops) \in Nat
  BY DEF ProjectionTyped
<1>2. PICK o \in Nat : o = Len(ops) + 1
  BY <1>1
<1>3. /\ Requested /\ Active' = Active /\ o \notin DOMAIN ops /\ DOMAIN ops' = DOMAIN ops \cup {o}
      /\ ops'[o] = [kind |-> "DOCUMENT_UPSERT", docs |-> {d}, status |-> "QUEUED", since |-> version']
      /\ \A k \in DOMAIN ops : ops'[k] = ops[k]
      /\ \A t \in TaskIds' \ TaskIds : tasks'[t].op = o /\ t = Len(tasks) + 1
      /\ version' = [version EXCEPT ![d] = @ + 1] /\ version \in [MatterDocs -> Nat]
      /\ \A e \in ToSet(documents) : e \in ToSet(documents')
      /\ version[d] = 0 => d \in ToSet(documents')
  BY <1>2, ChangeDocumentStep
<1>4. \A e \in MatterDocs : /\ version[e] \in Nat /\ version'[e] = IF e = d THEN version[e] + 1 ELSE version[e]
  BY <1>3
<1>5. \A k \in DOMAIN ops : \A e \in ops[k].docs : e \in MatterDocs /\ version[e] > 0 /\ e \in ToSet(documents)
  BY OperationRow DEF ContentInv
<1>6. version[d] > 0 => \E k \in DOMAIN ops : d \in ops[k].docs /\ ops[k].since[d] = 1
  BY DEF ContentInv
<1>7. d \in ToSet(documents')
  BY <1>3, <1>4, <1>5, <1>6
<1>8. ASSUME NEW k \in DOMAIN ops', NEW e \in ops'[k].docs
      PROVE  version'[e] > 0 /\ e \in ToSet(documents')
  <2>1. CASE k = o
    BY <1>3, <1>4, <1>7, <2>1
  <2>2. CASE k # o
    <3>1. k \in DOMAIN ops /\ e \in ops[k].docs
      BY <1>3, <2>2
    <3>2. e \in MatterDocs /\ version[e] > 0 /\ e \in ToSet(documents)
      BY <1>5, <3>1
    <3> QED BY <1>3, <1>4, <3>2
  <2> QED BY <2>1, <2>2
<1>9. ASSUME NEW e \in MatterDocs, version'[e] > 0
      PROVE  \E k \in DOMAIN ops' : e \in ops'[k].docs /\ ops'[k].since[e] = 1
  <2>1. CASE version[e] > 0
    <3>1. PICK k \in DOMAIN ops : e \in ops[k].docs /\ ops[k].since[e] = 1
      BY <2>1 DEF ContentInv
    <3> QED BY <1>3, <3>1
  <2>2. CASE ~(version[e] > 0)
    <3>1. e = d /\ version'[e] = 1
      BY <1>4, <1>9, <2>2
    <3>2. e \in ops'[o].docs /\ ops'[o].since[e] = 1
      BY <1>3, <3>1
    <3> QED BY <1>3, <3>2
  <2> QED BY <2>1, <2>2
<1>10. ops'[o].status = "QUEUED" /\ ops'[o].kind = "DOCUMENT_UPSERT"
  BY <1>3
<1> QED BY <1>2, <1>3, <1>8, <1>9, <1>10, ContentCreated

LEMMA ContentReshape ==
  ASSUME ProjectionTyped, ContentInv, RebuildIndex \/ \E s \in WantedSchemas : ChangeSchema(s)
  PROVE  ContentInv'
<1>1. ops \in Seq(OperationRows) /\ Len(ops) \in Nat
  BY DEF ProjectionTyped
<1>2. PICK o \in Nat : o = Len(ops) + 1
  BY <1>1
<1>3. /\ Requested /\ Active' = Active /\ o \notin DOMAIN ops /\ DOMAIN ops' = DOMAIN ops \cup {o}
      /\ ops'[o].docs = {} /\ ops'[o].status = "QUEUED"
      /\ \A k \in DOMAIN ops : ops'[k] = ops[k]
      /\ \A t \in TaskIds' \ TaskIds : tasks'[t].op = o /\ t = Len(tasks) + 1
      /\ UNCHANGED <<documents, version>>
  BY <1>2, ReshapeStep
<1>4. \A k \in DOMAIN ops' : \A d \in ops'[k].docs : version'[d] > 0 /\ d \in ToSet(documents')
  BY <1>3 DEF ContentInv
<1>5. \A d \in MatterDocs : version'[d] > 0 => \E k \in DOMAIN ops' : d \in ops'[k].docs /\ ops'[k].since[d] = 1
  BY <1>3 DEF ContentInv
<1> QED BY <1>2, <1>3, <1>4, <1>5, ContentCreated

\* What a request that creates no operation leaves as it is.
LEMMA ContentQueuedAgain ==
  ASSUME ProjectionTyped, ContentInv, Requested, DOMAIN ops' = DOMAIN ops, UNCHANGED <<documents, version>>,
         \A o \in DOMAIN ops : ops'[o].kind \in {ops[o].kind, "REBUILD"}
  PROVE  /\ \A o \in DOMAIN ops' : ops'[o].kind = "SCHEMA_SYNC" => ops'[o].docs = {}
         /\ \A o \in DOMAIN ops' : \A d \in ops'[o].docs : version'[d] > 0 /\ d \in ToSet(documents')
         /\ \A d \in MatterDocs : version'[d] > 0 =>
               \E o \in DOMAIN ops' : d \in ops'[o].docs /\ ops'[o].since[d] = 1
<1>1. \A o \in DOMAIN ops : ops'[o].docs = ops[o].docs /\ ops'[o].since = ops[o].since
  BY DEF Requested
<1>2. \A o \in DOMAIN ops : ops[o].kind = "SCHEMA_SYNC" => ops[o].docs = {}
  BY DEF ContentInv
<1>3. \A o \in DOMAIN ops' : ops'[o].kind = "SCHEMA_SYNC" => ops'[o].docs = {}
  BY <1>1, <1>2
<1> QED BY <1>1, <1>3 DEF ContentInv

\* A rebuild is confirmed when the workflows of its operation have ended.
LEMMA ContentConfirm ==
  ASSUME ProjectionTyped, ContentInv, InTurn, NEW o \in DOMAIN ops, ConfirmReindex(o)
  PROVE  ContentInv'
<1>1. /\ Requested /\ Active' = Active /\ UNCHANGED <<documents, version>>
      /\ DOMAIN ops' = DOMAIN ops /\ ops[o].status = "AWAITING_USER"
      /\ ops'[o].kind = "REBUILD" /\ ops'[o].status = "QUEUED"
      /\ \A k \in DOMAIN ops : k # o => ops'[k] = ops[k]
      /\ \A t \in TaskIds' \ TaskIds : tasks'[t].op = o /\ t = Len(tasks) + 1
  BY ConfirmReindexStep
<1>2. \A t \in TaskIds : tasks[t].op = o => tasks[t].pc \in Ended
  BY <1>1 DEF InTurn
<1>3. \A k \in DOMAIN ops : \/ ops'[k].kind = ops[k].kind
                            \/ /\ ops'[k].kind = "REBUILD"
                               /\ \A t \in TaskIds : tasks[t].op = k => tasks[t].pc \in Ended
  BY <1>1, <1>2
<1>4. \A k \in DOMAIN ops' : ops'[k].status = "COMPLETED" => k \in DOMAIN ops /\ ops[k].status = "COMPLETED"
  BY <1>1
<1>5. \A t \in TaskIds' \ TaskIds :
         /\ ops'[tasks'[t].op].status # "COMPLETED"
         /\ \A u \in TaskIds : tasks[u].op = tasks'[t].op => tasks[u].pc \in Ended
         /\ \A u \in TaskIds' \ TaskIds : u = t
  BY <1>1, <1>2
<1>6. /\ \A k \in DOMAIN ops' : ops'[k].kind = "SCHEMA_SYNC" => ops'[k].docs = {}
      /\ \A k \in DOMAIN ops' : \A d \in ops'[k].docs : version'[d] > 0 /\ d \in ToSet(documents')
      /\ \A d \in MatterDocs : version'[d] > 0 => \E k \in DOMAIN ops' : d \in ops'[k].docs /\ ops'[k].since[d] = 1
  BY <1>1, ContentQueuedAgain
<1> QED BY <1>1, <1>3, <1>4, <1>5, <1>6, ContentRequested

LEMMA ContentRetry ==
  ASSUME ProjectionTyped, ContentInv, RetryFailed
  PROVE  ContentInv'
<1>1. /\ Requested /\ Active' = Active /\ UNCHANGED <<documents, version>>
      /\ DOMAIN ops' = DOMAIN ops
      /\ \A o \in DOMAIN ops : ops'[o].kind = ops[o].kind /\ ops'[o].status \in {ops[o].status, "QUEUED"}
      /\ \A t \in TaskIds' \ TaskIds : \E o \in DOMAIN ops :
            tasks'[t].op = o /\ ops[o].kind = "DOCUMENT_UPSERT"
  BY RetryFailedStep
<1>2. \A t \in TaskIds' \ TaskIds : ops'[tasks'[t].op].kind # "REBUILD"
  BY <1>1
<1>3. \A k \in DOMAIN ops' : ops'[k].status = "COMPLETED" => k \in DOMAIN ops /\ ops[k].status = "COMPLETED"
  BY <1>1
<1>4. /\ \A k \in DOMAIN ops' : ops'[k].kind = "SCHEMA_SYNC" => ops'[k].docs = {}
      /\ \A k \in DOMAIN ops' : \A d \in ops'[k].docs : version'[d] > 0 /\ d \in ToSet(documents')
      /\ \A d \in MatterDocs : version'[d] > 0 => \E k \in DOMAIN ops' : d \in ops'[k].docs /\ ops'[k].since[d] = 1
  BY <1>1, ContentQueuedAgain
<1> QED BY <1>1, <1>2, <1>3, <1>4, ContentRequested

LEMMA ContentProjectBatch ==
  ASSUME ProjectionTyped, ContentInv, NEW b \in Batches, ProjectBatch(b)
  PROVE  ContentInv'
<1>1. /\ Requested /\ Active' = Active /\ UNCHANGED <<documents, version, ops>>
      /\ \A t \in TaskIds' \ TaskIds : tasks'[t].op = 0
  BY ProjectBatchStep
<1>2. \A o \in DOMAIN ops : ops'[o].kind = ops[o].kind
  BY <1>1
<1>3. /\ \A k \in DOMAIN ops' : ops'[k].kind = "SCHEMA_SYNC" => ops'[k].docs = {}
      /\ \A k \in DOMAIN ops' : \A d \in ops'[k].docs : version'[d] > 0 /\ d \in ToSet(documents')
      /\ \A d \in MatterDocs : version'[d] > 0 => \E k \in DOMAIN ops' : d \in ops'[k].docs /\ ops'[k].since[d] = 1
  BY <1>1, <1>2, ContentQueuedAgain
<1> QED BY <1>1, <1>2, <1>3, ContentRequested

LEMMA ContentSteps ==
  ProjectionTyped /\ AliasInv /\ ContentInv /\ [ProjectionNext /\ InTurn]_projectionVars => ContentInv'
<1> SUFFICES ASSUME ProjectionTyped, AliasInv, ContentInv, [ProjectionNext /\ InTurn]_projectionVars
             PROVE  ContentInv'
  OBVIOUS
<1>1. CASE ProjectionNext /\ InTurn
  <2>1. CASE Request
    BY <1>1, <2>1, ContentChangeDocument, ContentReshape, ContentConfirm, ContentRetry, ContentProjectBatch
       DEF Request
  <2>2. CASE CleanupScript
    BY <2>2, ContentCleanup
  <2>3. CASE \E t \in TaskIds : TaskStep(t) \/ TidyFails(t) \/ ServiceFails(t) \/ Crash(t)
    BY <2>3, ContentTask
  <2> QED BY <1>1, <2>1, <2>2, <2>3, NextIs
<1>2. CASE UNCHANGED projectionVars
  <2>1. /\ UNCHANGED <<documents, version, ops, tasks, gens, index, alias>>
        /\ TaskIds' = TaskIds /\ Active' = Active
    BY <1>2 DEF projectionVars, TaskIds, Active
  <2>2. \A n, d : Held(n, d)' <=> Held(n, d)
    BY <2>1 DEF Held, Exists, Missing, Absent
  <2>3. \A o : (Shown(o)' <=> Shown(o)) /\ (Reached(o)' <=> Reached(o))
    BY <2>1, <2>2 DEF Shown, Reached
  <2>4. \A t \in TaskIds : Projects(t) => Projects(t)'
    BY <2>1, <2>2, <2>3 DEF Projects
  <2>5. \A t \in TaskIds : Fills(t) => Fills(t)'
    BY <2>1, <2>2, <2>3 DEF Fills
  <2>6. \A t \in TaskIds : (Rebuilds(t) => Rebuilds(t)') /\ (Repairing(t) => Repairing(t)')
                           /\ (IsBatch(t) <=> IsBatch(t)')
    BY <2>1 DEF Rebuilds, Repairing, Forced, IsBatch
  <2> QED BY <2>1, <2>3, <2>4, <2>5, <2>6 DEF ContentInv
<1> QED BY <1>1, <1>2

LEMMA ContentStarts ==
  ProjectionInit => ContentInv
<1> SUFFICES ASSUME ProjectionInit
             PROVE  ContentInv
  OBVIOUS
<1>1. ops = <<>> /\ tasks = <<>> /\ version = [d \in MatterDocs |-> 0]
  BY DEF ProjectionInit
<1>2. DOMAIN ops = {} /\ TaskIds = {} /\ \A d \in MatterDocs : version[d] = 0
  BY <1>1 DEF TaskIds
<1>3. Active # {} => alias = Active
  <2>1. NoGeneration.status = "NONE"
    BY DEF NoGeneration
  <2>2. 1 \in Generations
    BY ProjectionAssumption DEF Generations
  <2>3. CASE gens = [n \in Generations |-> NoGeneration]
    BY <2>1, <2>3 DEF Active
  <2>4. ASSUME NEW s, gens = [n \in Generations |-> IF n = 1 THEN [status |-> "ACTIVE", schema |-> s] ELSE NoGeneration],
               alias = {1}
        PROVE  alias = Active
    <3>1. \A n \in Generations : gens[n] = IF n = 1 THEN [status |-> "ACTIVE", schema |-> s] ELSE NoGeneration
      BY <2>4
    <3> QED BY <2>1, <2>2, <2>4, <3>1 DEF Active
  <2> QED BY <2>3, <2>4 DEF ProjectionInit
<1> QED BY <1>2, <1>3 DEF ContentInv

\* When cleanups and builds take turns, no crash, failure or interleaving loses a document:
\* once all workflows are done, each document with a completed upsert is in the active index,
\* which the alias names, and no older than one of its operations.
THEOREM CompletedIsFound == OrderlyProjection => []SettledIsSearchable
<1>1. ProjectionInit => ProjectionTyped /\ AliasInv /\ ContentInv
  BY ProjectionStarts, ContentStarts
<1>2. ProjectionTyped /\ AliasInv /\ ContentInv /\ [ProjectionNext /\ InTurn]_projectionVars
        => ProjectionTyped' /\ AliasInv' /\ ContentInv'
  <2>1. [ProjectionNext /\ InTurn]_projectionVars => [ProjectionNext]_projectionVars
    OBVIOUS
  <2> QED BY <2>1, TypedSteps, AliasSteps, ContentSteps
<1>3. ProjectionTyped /\ AliasInv /\ ContentInv => SettledIsSearchable
  <2> SUFFICES ASSUME ProjectionTyped, ContentInv, Settled, NEW d \in MatterDocs,
                      NEW o \in DOMAIN ops, d \in ops[o].docs, ops[o].status = "COMPLETED"
               PROVE  \E n \in Active :
                         /\ alias = {n} /\ Exists(n)
                         /\ \E k \in {k \in DOMAIN ops : d \in ops[k].docs} : index[n][d].version >= ops[k].since[d]
    BY DEF SettledIsSearchable
  <2>1. Shown(o) /\ version[d] > 0
    BY DEF ContentInv
  <2>2. PICK n \in Active : Held(n, d)
    BY <2>1 DEF Shown
  <2>3. PICK k \in DOMAIN ops : d \in ops[k].docs /\ ops[k].since[d] = 1
    BY <2>1 DEF ContentInv
  <2>4. alias = {n}
    <3>1. \A t \in TaskIds : ~Repairing(t)
      BY DEF Settled, Repairing, Building
    <3>2. alias = Active
      BY <2>2, <3>1 DEF ContentInv
    <3> QED BY <2>2, <3>2, ActiveIs
  <2>5. index[n][d].version \in Nat
    <3>1. index \in [Generations -> Contents \cup {Missing}] /\ n \in Generations
      BY DEF ProjectionTyped, Active
    <3>2. index[n] \in Contents
      BY <2>2, <3>1 DEF Held, Exists
    <3> QED BY <3>2 DEF Contents, Entries
  <2>6. index[n][d].version >= ops[k].since[d]
    BY <2>2, <2>3, <2>5 DEF Held
  <2> QED BY <2>2, <2>3, <2>4, <2>6 DEF Held
<1> QED BY <1>1, <1>2, <1>3, PTL DEF OrderlyProjection

(***************************************************************************)
(* One change of the schema, or one rebuild.                               *)
(***************************************************************************)
\* A schema changes once or a rebuild is asked for once, and operations are queued
\* again, or a rebuild is confirmed, once.
OneReshape == MaxReshapes <= 1 /\ MaxRequeues <= 1

Quiet == \A t \in TaskIds : tasks[t].pc \notin Building \cup Tidying
Awaiting(o) == ops[o].status = "AWAITING_USER"
Rebuild(o) == ops[o].kind = "REBUILD"
Planned(plans) == \A n \in Active : Plan(n) \in plans

\* Nothing was asked for yet.
Calm ==
    /\ reshapes = 0 /\ Active # {} /\ Planned({"NO_CHANGE"}) /\ Quiet
    /\ \A o \in DOMAIN ops : ~Rebuild(o) /\ ~Awaiting(o)

\* The first index is built, or the active one can be extended.
Extending ==
    /\ reshapes = 1 /\ Planned({"NO_CHANGE", "IN_PLACE"})
    /\ \A o \in DOMAIN ops : ~Rebuild(o) /\ ~Awaiting(o)

\* The active index must be rebuilt, and nobody has confirmed it.
Refusing ==
    /\ reshapes = 1 /\ Active # {} /\ Planned({"REINDEX_REQUIRED"}) /\ Quiet
    /\ \A o \in DOMAIN ops : ~Rebuild(o)

\* One operation rebuilds it.
Rebuilding ==
    /\ reshapes = 1 /\ Active # {} /\ Planned({"NO_CHANGE", "REINDEX_REQUIRED"})
    /\ \A k, o \in DOMAIN ops : Rebuild(k) /\ Rebuild(o) => k = o
    /\ \A t \in TaskIds : tasks[t].pc \in Building \cup Tidying => Forced(t)
    /\ requeues = 0 => Planned({"NO_CHANGE"}) /\ \A o \in DOMAIN ops : ~Awaiting(o)

\* Until something is queued again, an operation has one workflow.
Single ==
    /\ \A t, u \in TaskIds : (/\ tasks[t].op = tasks[u].op /\ ~IsBatch(t)
                              /\ tasks[t].pc \notin Ended /\ tasks[u].pc \notin Ended) => t = u
    /\ \A o \in DOMAIN ops, t \in TaskIds : Awaiting(o) /\ tasks[t].op = o => tasks[t].pc \in Ended

\* How far the one change has come.
ReshapeInv ==
    /\ IsSchema(schema) /\ \A n \in Generations : IsSchema(gens[n].schema)
    /\ requeues \in Nat /\ (requeues = 0 => Single)
    /\ Calm \/ Extending \/ Refusing \/ Rebuilding

\* An index that can be extended need not be rebuilt after it was.
LEMMA UpdatedPlan ==
  ASSUME NEW c, NEW d, IsSchema(c), IsSchema(d), ~NeedsProjection(c, d)
  PROVE  IsSchema(MappingUpdate(c, d)) /\ ~NeedsProjection(MappingUpdate(c, d), d)
<1> DEFINE p == [f \in Fields(c) \cup Added(c, d) |->
                    IF f \in Fields(c) THEN c.properties[f] ELSE d.properties[f]]
           m == MappingUpdate(c, d)
<1>1. m = [settings |-> c.settings, options |-> c.options, properties |-> p]
  <2>1. c = [settings |-> c.settings, options |-> c.options, properties |-> c.properties]
    BY DEF IsSchema
  <2>2. m = [c EXCEPT !.properties = p]
    BY DEF MappingUpdate
  <2> HIDE DEF p, m
  <2> QED BY <2>1, <2>2
<1>2. /\ c.settings = d.settings /\ c.options = d.options
      /\ Removed(c, d) = {} /\ Changed(c, d) = {}
  BY DEF NeedsProjection
<1>3. Fields(c) \cup Added(c, d) = Fields(d) /\ DOMAIN p = Fields(d)
  BY <1>2 DEF Removed, Added
<1>4. \A f \in Fields(d) : p[f] = d.properties[f]
  <2>1. \A f \in Fields(c) : f \in Fields(d) => c.properties[f] = d.properties[f]
    BY <1>2 DEF Changed
  <2> QED BY <1>3, <2>1
<1> HIDE DEF p, m
<1>5. m.settings = d.settings /\ m.options = d.options /\ m.properties = p
  BY <1>1, <1>2
<1>6. Fields(m) = Fields(d)
  BY <1>3, <1>5 DEF Fields
<1>7. Removed(m, d) = {} /\ Added(m, d) = {} /\ Changed(m, d) = {}
  BY <1>4, <1>5, <1>6 DEF Removed, Added, Changed
<1>8. IsSchema(m)
  BY <1>1 DEF IsSchema
<1>9. ~NeedsProjection(m, d)
  BY <1>5, <1>7 DEF NeedsProjection
<1> QED BY <1>8, <1>9 DEF m

\* The plans for an index.
LEMMA PlanIs ==
  ASSUME NEW c, NEW d
  PROVE  /\ SchemaPlan(c, d) \in {"NO_CHANGE", "IN_PLACE", "REINDEX_REQUIRED"}
         /\ SchemaPlan(c, c) = "NO_CHANGE"
         /\ SchemaPlan(c, d) = "IN_PLACE" => ~NeedsProjection(c, d)
         /\ ~NeedsProjection(c, d) => SchemaPlan(c, d) \in {"NO_CHANGE", "IN_PLACE"}
BY DEF SchemaPlan

\* An operation begins to wait for a user only when its workflow ends.
WaitsOnlyFor(t) ==
    \A o \in DOMAIN ops : ops'[o].status = "AWAITING_USER" =>
        \/ Awaiting(o)
        \/ o = tasks[t].op /\ tasks'[t].pc \in Ended

\* What a task does to the rule that an operation has one workflow.
LEMMA SingleStays ==
  ASSUME ProjectionTyped, NEW t \in TaskIds, Stepped(t), Single, tasks[t].pc \notin Ended, WaitsOnlyFor(t)
  PROVE  Single'
<1>1. /\ TaskIds' = TaskIds /\ DOMAIN ops' = DOMAIN ops
      /\ \A u \in TaskIds : tasks'[u].op = tasks[u].op
      /\ \A u \in TaskIds : u # t => tasks'[u] = tasks[u]
  BY TaskMoved DEF Stepped
<1>2. \A u \in TaskIds : tasks'[u].pc \notin Ended => tasks[u].pc \notin Ended
  BY <1>1
<1>3. \A u \in TaskIds : IsBatch(u)' <=> IsBatch(u)
  BY <1>1 DEF IsBatch
<1>4. \A u, v \in TaskIds : (/\ tasks'[u].op = tasks'[v].op /\ ~IsBatch(u)'
                             /\ tasks'[u].pc \notin Ended /\ tasks'[v].pc \notin Ended) => u = v
  BY <1>1, <1>2, <1>3 DEF Single
<1>5. ASSUME NEW o \in DOMAIN ops, NEW u \in TaskIds, Awaiting(o)', tasks'[u].op = o
      PROVE  tasks'[u].pc \in Ended
  <2>3. Awaiting(o) \/ (o = tasks[t].op /\ tasks'[t].pc \in Ended)
    BY <1>5 DEF WaitsOnlyFor, Awaiting
  <2>1. CASE Awaiting(o)
    BY <1>1, <1>2, <1>5, <2>1 DEF Single
  <2>2. CASE o = tasks[t].op /\ tasks'[t].pc \in Ended
    <3>1. ~IsBatch(u)
      BY <1>1, <1>5, OperationOf
    <3>2. u # t => tasks[u].pc \in Ended
      BY <1>1, <1>5, <2>2, <3>1 DEF Single
    <3> QED BY <1>1, <2>2, <3>2
  <2> QED BY <2>1, <2>2, <2>3
<1> QED BY <1>1, <1>4, <1>5 DEF Single

\* A task's step that is none of the phase's.
LEMMA PhaseStays ==
  ASSUME ProjectionTyped, ReshapeInv, NEW t \in TaskIds, Stepped(t), Active' = Active,
         UNCHANGED <<schema, reshapes, requeues>>, tasks[t].pc \notin Ended,
         \A n \in Generations : IsSchema(gens'[n].schema),
         \A n \in Active : gens'[n].schema = gens[n].schema,
         tasks'[t].pc \in Building \cup Tidying => tasks[t].pc \in Building \cup Tidying,
         \A o \in DOMAIN ops : Awaiting(o)' => Awaiting(o)
  PROVE  ReshapeInv'
<1>1. /\ TaskIds' = TaskIds /\ DOMAIN ops' = DOMAIN ops
      /\ \A u \in TaskIds : tasks'[u].op = tasks[u].op
      /\ \A u \in TaskIds : u # t => tasks'[u] = tasks[u]
      /\ \A o \in DOMAIN ops : ops'[o].kind = ops[o].kind
  BY TaskMoved DEF Stepped, KeepsOperations
<1>2. \A u \in TaskIds : tasks'[u].pc \in Building \cup Tidying => tasks[u].pc \in Building \cup Tidying
  BY <1>1
<1>3. \A u \in TaskIds : Forced(u)' <=> Forced(u)
  BY <1>1, OperationOf DEF Forced, IsBatch
<1>4. \A o \in DOMAIN ops : Rebuild(o)' <=> Rebuild(o)
  BY <1>1 DEF Rebuild
<1>5. \A plans : Planned(plans)' <=> Planned(plans)
  BY DEF Planned, Plan
<1>6. Quiet => Quiet'
  BY <1>1, <1>2 DEF Quiet
<1>7. ASSUME requeues' = 0 PROVE Single'
  <2>1. requeues = 0
    BY <1>7
  <2>2. Single
    BY <2>1 DEF ReshapeInv
  <2>3. WaitsOnlyFor(t)
    BY DEF WaitsOnlyFor, Awaiting
  <2> QED BY <2>2, <2>3, SingleStays
<1>8. Calm \/ Extending \/ Refusing \/ Rebuilding
  BY DEF ReshapeInv
<1>9. Calm' \/ Extending' \/ Refusing' \/ Rebuilding'
  <2>1. CASE Calm
    BY <1>1, <1>4, <1>5, <1>6, <2>1 DEF Calm
  <2>2. CASE Extending
    BY <1>1, <1>4, <1>5, <2>2 DEF Extending
  <2>3. CASE Refusing
    BY <1>1, <1>4, <1>5, <1>6, <2>3 DEF Refusing
  <2>4. CASE Rebuilding
    BY <1>1, <1>2, <1>3, <1>4, <1>5, <2>4 DEF Rebuilding
  <2> QED BY <1>8, <2>1, <2>2, <2>3, <2>4
<1> QED BY <1>7, <1>9 DEF ReshapeInv

\* What every step of a task leaves alone.
LEMMA TaskLeaves ==
  ASSUME NEW t \in TaskIds, TaskStep(t) \/ TidyFails(t) \/ ServiceFails(t) \/ Crash(t)
  PROVE  UNCHANGED <<schema, reshapes, requeues>>
<1>1. CASE Begin(t) \/ Fill(t) \/ SwitchAlias(t) \/ Activate(t) \/ ListObsolete(t) \/ Tidy(t)
  BY <1>1 DEF Begin, Fill, SwitchAlias, Activate, ListObsolete, Tidy, databaseVars
<1>2. CASE Ensure(t)
  BY <1>2 DEF Ensure, EnsureCurrent, EnsureInPlace, EnsureRefuses, EnsureCreates, databaseVars
<1>3. CASE ReadDocuments(t) \/ WriteDocuments(t) \/ Complete(t) \/ UpdateMembers(t) \/ CommitSynced(t)
  BY <1>3 DEF ReadDocuments, WriteDocuments, Complete, UpdateMembers, CommitSynced, databaseVars
<1>4. CASE TidyFails(t) \/ ServiceFails(t) \/ Crash(t)
  BY <1>4 DEF TidyFails, ServiceFails, Crash, databaseVars
<1> QED BY <1>1, <1>2, <1>3, <1>4 DEF TaskStep

\* The schemas of the generations that are left after some were deleted.
LEMMA DeletedSchemas ==
  ASSUME NEW doomed \in SUBSET Generations, Delete(doomed),
         \A n \in Generations : IsSchema(gens[n].schema)
  PROVE  /\ \A n \in Generations : IsSchema(gens'[n].schema)
         /\ \A n \in Generations \ doomed : gens'[n] = gens[n]
<1>1. IsSchema(OlderSchema)
  BY ProjectionAssumption
<1>2. NoGeneration.schema = OlderSchema
  BY DEF NoGeneration
<1>3. \A n \in Generations : gens'[n] = IF n \in doomed THEN NoGeneration ELSE gens[n]
  BY DEF Delete
<1> QED BY <1>1, <1>2, <1>3

\* No step makes an operation wait for a user but the refusal of ensure.
LEMMA NobodyWaits ==
  ASSUME NEW t \in TaskIds, NEW s, s # "AWAITING_USER", Statuses(t, s) \/ UNCHANGED ops
  PROVE  \A o \in DOMAIN ops : Awaiting(o)' => Awaiting(o)
BY DEF Awaiting, Statuses

\* The steps that change neither a schema nor a phase.
LEMMA PhaseSteps ==
  ASSUME ProjectionTyped, AliasInv, ReshapeInv, NEW t \in TaskIds,
         \/ Begin(t) \/ Fill(t) \/ ListObsolete(t) \/ TidyFails(t) \/ Crash(t)
         \/ ReadDocuments(t) \/ WriteDocuments(t) \/ Complete(t) \/ UpdateMembers(t) \/ CommitSynced(t)
  PROVE  ReshapeInv'
<1>1. UNCHANGED <<schema, reshapes, requeues>>
  BY TaskLeaves DEF TaskStep
<1>2. \A n \in Generations : IsSchema(gens[n].schema)
  BY DEF ReshapeInv
<1>3. \A n \in Active : n \in Generations
  BY DEF Active
<1>4. CASE Begin(t) \/ TidyFails(t) \/ Crash(t)
  <2>1. /\ Stepped(t) /\ Active' = Active /\ UNCHANGED gens /\ tasks[t].pc \notin Ended
        /\ tasks'[t].pc \notin Building \cup Tidying
        /\ Statuses(t, "RUNNING") \/ UNCHANGED ops
    BY <1>4, BeginStep, TidyFailsStep, CrashStep, WorkIs DEF Ended, Building, Tidying
  <2>2. \A o \in DOMAIN ops : Awaiting(o)' => Awaiting(o)
    BY <2>1, NobodyWaits
  <2>3. \A n \in Generations : IsSchema(gens'[n].schema)
    BY <1>2, <2>1
  <2> QED BY <1>1, <1>3, <2>1, <2>2, <2>3, PhaseStays
<1>5. CASE Fill(t) \/ ListObsolete(t)
  <2>1. /\ Stepped(t) /\ Active' = Active /\ UNCHANGED <<gens, ops>>
        /\ tasks[t].pc \notin Ended /\ tasks[t].pc \in Building \cup Tidying
    BY <1>5, FillStep, ListStep DEF Ended, Building, Tidying
  <2>2. \A o \in DOMAIN ops : Awaiting(o)' => Awaiting(o)
    BY <2>1 DEF Awaiting
  <2>3. \A n \in Generations : IsSchema(gens'[n].schema)
    BY <1>2, <2>1
  <2> QED BY <1>1, <1>3, <2>1, <2>2, <2>3, PhaseStays
<1>6. CASE ReadDocuments(t) \/ WriteDocuments(t) \/ Complete(t) \/ UpdateMembers(t) \/ CommitSynced(t)
  <2>1. /\ Stepped(t) /\ Active' = Active /\ UNCHANGED gens /\ tasks[t].pc \notin Ended
        /\ tasks'[t].pc \notin Building \cup Tidying
        /\ Statuses(t, "COMPLETED") \/ Statuses(t, "FAILED") \/ UNCHANGED ops
    BY <1>6, ReadDocumentsStep, WriteDocumentsStep, CompleteStep, UpdateMembersStep, CommitSyncedStep
       DEF Ended, Building, Tidying
  <2>2. \A o \in DOMAIN ops : Awaiting(o)' => Awaiting(o)
    BY <2>1, NobodyWaits
  <2>3. \A n \in Generations : IsSchema(gens'[n].schema)
    BY <1>2, <2>1
  <2> QED BY <1>1, <1>3, <2>1, <2>2, <2>3, PhaseStays
<1> QED BY <1>4, <1>5, <1>6

\* A build that fails leaves a row that is not active.
LEMMA PhaseFailBuild ==
  ASSUME ProjectionTyped, ReshapeInv, NEW t \in TaskIds, FailBuild(t), tasks[t].gen \in Generations,
         gens[tasks[t].gen].status = "NONE", tasks[t].pc \notin Ended,
         UNCHANGED <<documents, version, index, alias, schema, reshapes, requeues>>
  PROVE  ReshapeInv'
<1>1. /\ Stepped(t) /\ Active' = Active /\ tasks'[t].pc \in {"begin", "error"} /\ Statuses(t, "FAILED")
  BY FailBuildStep
<1>2. \A o \in DOMAIN ops : Awaiting(o)' => Awaiting(o)
  BY <1>1, NobodyWaits
<1> DEFINE row == [status |-> "FAILED", schema |-> schema]
<1>3. gens' = [gens EXCEPT ![tasks[t].gen] = row] /\ row.schema = schema
  BY DEF FailBuild
<1>4. gens = [n \in Generations |-> gens[n]]
  BY DEF ProjectionTyped
<1> HIDE DEF row
<1>5. \A n \in Generations : gens'[n] = IF n = tasks[t].gen THEN row ELSE gens[n]
  BY <1>3, <1>4
<1>6. \A n \in Generations : IsSchema(gens'[n].schema)
  BY <1>3, <1>5 DEF ReshapeInv
<1>7. \A n \in Active : gens'[n].schema = gens[n].schema
  BY <1>5 DEF Active
<1>8. tasks'[t].pc \notin Building \cup Tidying
  BY <1>1 DEF Building, Tidying
<1> QED BY <1>1, <1>2, <1>6, <1>7, <1>8, PhaseStays

LEMMA PhaseFails ==
  ASSUME ProjectionTyped, AliasInv, ReshapeInv, NEW t \in TaskIds, ServiceFails(t)
  PROVE  ReshapeInv'
<1>1. UNCHANGED <<schema, reshapes, requeues>>
  BY TaskLeaves
<1>2. tasks[t].pc \in Building => gens[tasks[t].gen].status = "NONE" /\ tasks[t].gen \in Generations
  BY TaskRow DEF AliasInv, Sound, Placed
<1>3. /\ Stepped(t) /\ UNCHANGED <<index, alias>> /\ Statuses(t, "FAILED") /\ Active' = Active
      /\ tasks[t].pc \in {"ensure", "read", "write", "relock", "fill", "switch"}
      /\ tasks[t].pc \notin Building => UNCHANGED gens
      /\ tasks'[t].pc \in {"begin", "error"}
  BY <1>2, ServiceFailsStep
<1>4. tasks[t].pc \notin Ended /\ tasks'[t].pc \notin Building \cup Tidying
  BY <1>3 DEF Ended, Building, Tidying
<1>5. CASE UNCHANGED gens
  <2>1. \A o \in DOMAIN ops : Awaiting(o)' => Awaiting(o)
    BY <1>3, NobodyWaits
  <2>2. \A n \in Generations : IsSchema(gens'[n].schema)
    BY <1>5 DEF ReshapeInv
  <2> QED BY <1>1, <1>3, <1>4, <1>5, <2>1, <2>2, PhaseStays
<1>6. CASE tasks[t].pc \in {"fill", "switch"} /\ FailBuild(t)
  BY <1>1, <1>2, <1>3, <1>4, <1>6, PhaseFailBuild DEF Stepped, Building
<1> QED BY <1>5, <1>6 DEF ServiceFails

LEMMA PhaseSwitch ==
  ASSUME ProjectionTyped, AliasInv, ReshapeInv, NEW t \in TaskIds, SwitchAlias(t)
  PROVE  ReshapeInv'
<1>1. UNCHANGED <<schema, reshapes, requeues>>
  BY TaskLeaves DEF TaskStep
<1>2. /\ Stepped(t) /\ UNCHANGED index /\ tasks[t].pc = "switch" /\ tasks[t].gen \in Generations
      /\ gens[tasks[t].gen].status = "NONE" => Active' = Active
  BY SwitchStep
<1>3. gens[tasks[t].gen].status = "NONE" /\ tasks[t].pc \in Building /\ tasks[t].pc \notin Ended
  BY <1>2 DEF AliasInv, Sound, Building, Ended
<1>4. CASE UNCHANGED <<gens, ops, batch>>
  <2>1. \A o \in DOMAIN ops : Awaiting(o)' => Awaiting(o)
    BY <1>4 DEF Awaiting
  <2>2. \A n \in Generations : IsSchema(gens'[n].schema)
    BY <1>4 DEF ReshapeInv
  <2> QED BY <1>1, <1>2, <1>3, <1>4, <2>1, <2>2, PhaseStays
<1>5. CASE FailBuild(t) /\ UNCHANGED alias
  BY <1>1, <1>2, <1>3, <1>5, PhaseFailBuild DEF Stepped
<1> QED BY <1>4, <1>5 DEF SwitchAlias
\* A task's step keeps what else the invariant says of operations and tasks.
LEMMA PhaseKeeps ==
  ASSUME ProjectionTyped, ReshapeInv, NEW t \in TaskIds, Stepped(t),
         UNCHANGED <<schema, reshapes, requeues>>, tasks[t].pc \notin Ended, WaitsOnlyFor(t)
  PROVE  /\ requeues' \in Nat /\ (requeues' = 0 => Single')
         /\ TaskIds' = TaskIds /\ DOMAIN ops' = DOMAIN ops
         /\ \A u \in TaskIds : u # t => tasks'[u] = tasks[u]
         /\ \A u \in TaskIds : Forced(u)' <=> Forced(u)
         /\ \A o \in DOMAIN ops : Rebuild(o)' <=> Rebuild(o)
<1>1. /\ TaskIds' = TaskIds /\ DOMAIN ops' = DOMAIN ops
      /\ \A u \in TaskIds : tasks'[u].op = tasks[u].op
      /\ \A u \in TaskIds : u # t => tasks'[u] = tasks[u]
      /\ \A o \in DOMAIN ops : ops'[o].kind = ops[o].kind
  BY TaskMoved DEF Stepped, KeepsOperations
<1>2. \A u \in TaskIds : Forced(u)' <=> Forced(u)
  BY <1>1, OperationOf DEF Forced, IsBatch
<1>3. \A o \in DOMAIN ops : Rebuild(o)' <=> Rebuild(o)
  BY <1>1 DEF Rebuild
<1>4. ASSUME requeues' = 0 PROVE Single'
  <2>1. Single
    BY <1>4 DEF ReshapeInv
  <2> QED BY <2>1, SingleStays
<1> QED BY <1>1, <1>2, <1>3, <1>4 DEF ReshapeInv

LEMMA PhaseEnsureCurrent ==
  ASSUME ProjectionTyped, ReshapeInv, NEW t \in TaskIds, NEW n \in Active, At(t, "ensure"),
         EnsureCurrent(t, n), UNCHANGED <<schema, reshapes, requeues>>
  PROVE  ReshapeInv'
<1>1. /\ Stepped(t) /\ Active' = Active /\ Active = {n} /\ n \in Generations
      /\ Statuses(t, "FAILED") \/ UNCHANGED ops
      /\ tasks'[t].pc \in {"begin", "error", "read", "complete", "relock"}
  BY EnsureCurrentStep, ActiveIs, WorkIs
<1>2. tasks[t].pc \notin Ended /\ tasks'[t].pc \notin Building \cup Tidying
  BY <1>1 DEF At, Ended, Building, Tidying
<1>3. \A o \in DOMAIN ops : Awaiting(o)' => Awaiting(o)
  BY <1>1, NobodyWaits
<1>4. \A m \in Generations : IsSchema(gens[m].schema)
  BY DEF ReshapeInv
<1>5. CASE UNCHANGED gens
  <2>1. \A m \in Generations : IsSchema(gens'[m].schema)
    BY <1>4, <1>5
  <2> QED BY <1>1, <1>2, <1>3, <1>5, <2>1, PhaseStays
<1>6. CASE Delete(Obsolete(n))
  <2>1. Obsolete(n) \in SUBSET Generations /\ n \notin Obsolete(n)
    BY DEF Obsolete
  <2>2. /\ \A m \in Generations : IsSchema(gens'[m].schema)
        /\ gens'[n] = gens[n]
    BY <1>1, <1>4, <1>6, <2>1, DeletedSchemas
  <2> QED BY <1>1, <1>2, <1>3, <2>2, PhaseStays
<1> QED BY <1>5, <1>6 DEF EnsureCurrent

LEMMA PhaseEnsureInPlace ==
  ASSUME ProjectionTyped, ReshapeInv, NEW t \in TaskIds, NEW n \in Active, At(t, "ensure"),
         EnsureInPlace(t, n), UNCHANGED <<schema, reshapes, requeues>>
  PROVE  ReshapeInv'
<1>1. /\ Stepped(t) /\ Active' = Active /\ Active = {n} /\ n \in Generations
      /\ Statuses(t, "FAILED") \/ UNCHANGED ops
      /\ Plan(n) = "IN_PLACE"
      /\ tasks[t].pc \notin Ended
  BY EnsureInPlaceStep, ActiveIs DEF EnsureInPlace, At, Ended
<1>2. \A o \in DOMAIN ops : Awaiting(o)' => Awaiting(o)
  BY <1>1, NobodyWaits
<1>3. IsSchema(schema) /\ \A m \in Generations : IsSchema(gens[m].schema)
  BY DEF ReshapeInv
<1>4. CASE Fail(t) /\ UNCHANGED gens
  <2>1. tasks'[t].pc \notin Building \cup Tidying
    BY <1>4, FailStep DEF Building, Tidying
  <2>2. \A m \in Generations : IsSchema(gens'[m].schema)
    BY <1>3, <1>4
  <2> QED BY <1>1, <1>2, <1>4, <2>1, <2>2, PhaseStays
<1>5. CASE /\ gens' = [gens EXCEPT ![n].schema = MappingUpdate(@, schema)]
           /\ UNCHANGED ops
  <2> DEFINE update == MappingUpdate(gens[n].schema, schema)
  <2>1. gens = [m \in Generations |-> gens[m]] /\ GenerationRow(gens[n])
    BY <1>1 DEF ProjectionTyped
  <2>2. gens'[n].schema = update /\ \A m \in Generations : m # n => gens'[m] = gens[m]
    <3> HIDE DEF update
    <3>1. gens' = [gens EXCEPT ![n] = [gens[n] EXCEPT !.schema = update]]
      BY <1>5 DEF update
    <3>2. gens'[n] = [gens[n] EXCEPT !.schema = update]
      BY <1>1, <2>1, <3>1
    <3>3. gens[n] = [status |-> gens[n].status, schema |-> gens[n].schema]
      BY <2>1 DEF GenerationRow
    <3> QED BY <1>1, <2>1, <3>1, <3>2, <3>3
  <2>3. IsSchema(update) /\ ~NeedsProjection(update, schema)
    BY <1>1, <1>3, PlanIs, UpdatedPlan DEF Plan
  <2> HIDE DEF update
  <2>4. \A m \in Generations : IsSchema(gens'[m].schema)
    BY <1>3, <2>2, <2>3
  <2>5. Planned({"NO_CHANGE", "IN_PLACE"})'
    <3>1. SchemaPlan(gens'[n].schema, schema') \in {"NO_CHANGE", "IN_PLACE"}
      BY <2>2, <2>3, PlanIs
    <3> QED BY <1>1, <3>1 DEF Planned, Plan
  <2>6. Extending
    <3>1. ~Planned({"NO_CHANGE"}) /\ ~Planned({"REINDEX_REQUIRED"}) /\ ~Planned({"NO_CHANGE", "REINDEX_REQUIRED"})
      BY <1>1 DEF Planned
    <3> QED BY <3>1 DEF ReshapeInv, Calm, Refusing, Rebuilding
  <2>7. WaitsOnlyFor(t)
    BY <1>2 DEF WaitsOnlyFor, Awaiting
  <2>8. Extending'
    BY <1>1, <1>2, <2>5, <2>6, <2>7, PhaseKeeps DEF Extending
  <2> QED BY <1>1, <1>3, <2>4, <2>7, <2>8, PhaseKeeps DEF ReshapeInv
<1> QED BY <1>4, <1>5 DEF EnsureInPlace

LEMMA PhaseEnsureRefuses ==
  ASSUME ProjectionTyped, ReshapeInv, NEW t \in TaskIds, NEW n \in Active, At(t, "ensure"),
         EnsureRefuses(t, n), UNCHANGED <<schema, reshapes, requeues>>
  PROVE  ReshapeInv'
<1>1. /\ Stepped(t) /\ Active' = Active /\ Active = {n} /\ n \in Generations /\ UNCHANGED gens
      /\ Plan(n) = "REINDEX_REQUIRED" /\ tasks[t].pc \notin Ended
      /\ \/ tasks'[t].pc \in {"begin", "error"} /\ Statuses(t, "FAILED")
         \/ tasks'[t].pc = "done" /\ Statuses(t, "AWAITING_USER")
  BY EnsureRefusesStep, ActiveIs DEF EnsureRefuses, At, Ended
<1>2. IsSchema(schema) /\ \A m \in Generations : IsSchema(gens'[m].schema)
  BY <1>1 DEF ReshapeInv
<1>3. tasks'[t].pc \notin Building \cup Tidying
  BY <1>1 DEF Building, Tidying
<1>4. WaitsOnlyFor(t)
  BY <1>1 DEF WaitsOnlyFor, Statuses, Awaiting, Ended
<1>5. \A plans : Planned(plans)' <=> Planned(plans)
  BY <1>1 DEF Planned, Plan
<1>6. ~Planned({"NO_CHANGE"}) /\ ~Planned({"NO_CHANGE", "IN_PLACE"})
  BY <1>1 DEF Planned
<1>7. /\ requeues' \in Nat /\ (requeues' = 0 => Single')
      /\ TaskIds' = TaskIds /\ DOMAIN ops' = DOMAIN ops
      /\ \A u \in TaskIds : u # t => tasks'[u] = tasks[u]
      /\ \A u \in TaskIds : Forced(u)' <=> Forced(u)
      /\ \A o \in DOMAIN ops : Rebuild(o)' <=> Rebuild(o)
  BY <1>1, <1>4, PhaseKeeps
<1>8. CASE Refusing
  <2>1. Quiet'
    BY <1>3, <1>7, <1>8 DEF Refusing, Quiet
  <2>2. Refusing'
    BY <1>1, <1>5, <1>7, <1>8, <2>1 DEF Refusing
  <2> QED BY <1>2, <1>7, <2>2 DEF ReshapeInv
<1>9. CASE Rebuilding
  <2>1. \A u \in TaskIds : tasks'[u].pc \in Building \cup Tidying => Forced(u)'
    BY <1>3, <1>7, <1>9 DEF Rebuilding
  <2>2. requeues' # 0
    BY <1>6, <1>9 DEF Rebuilding
  <2>3. Rebuilding'
    BY <1>1, <1>5, <1>7, <1>9, <2>1, <2>2 DEF Rebuilding
  <2> QED BY <1>2, <1>7, <2>3 DEF ReshapeInv
<1> QED BY <1>6, <1>8, <1>9 DEF ReshapeInv, Calm, Extending

LEMMA PhaseEnsureCreates ==
  ASSUME ProjectionTyped, ReshapeInv, NEW t \in TaskIds, At(t, "ensure"),
         EnsureCreates(t), UNCHANGED <<schema, reshapes, requeues>>
  PROVE  ReshapeInv'
<1>1. /\ Stepped(t) /\ Active' = Active /\ (Active = {} \/ Forced(t)) /\ UNCHANGED <<gens, ops>>
      /\ tasks[t].pc \notin Ended
  BY EnsureCreatesStep DEF At, Ended
<1>2. IsSchema(schema) /\ \A m \in Generations : IsSchema(gens'[m].schema)
  BY <1>1 DEF ReshapeInv
<1>3. WaitsOnlyFor(t) /\ \A o \in DOMAIN ops : Awaiting(o)' <=> Awaiting(o)
  BY <1>1 DEF WaitsOnlyFor, Awaiting
<1>4. \A plans : Planned(plans)' <=> Planned(plans)
  BY <1>1 DEF Planned, Plan
<1>5. /\ requeues' \in Nat /\ (requeues' = 0 => Single')
      /\ TaskIds' = TaskIds /\ DOMAIN ops' = DOMAIN ops
      /\ \A u \in TaskIds : u # t => tasks'[u] = tasks[u]
      /\ \A u \in TaskIds : Forced(u)' <=> Forced(u)
      /\ \A o \in DOMAIN ops : Rebuild(o)' <=> Rebuild(o)
  BY <1>1, <1>3, PhaseKeeps
<1>6. CASE Extending
  <2>1. Extending'
    BY <1>3, <1>4, <1>5, <1>6 DEF Extending
  <2> QED BY <1>2, <1>5, <2>1 DEF ReshapeInv
<1>7. CASE Rebuilding
  <2>1. Forced(t)
    BY <1>1, <1>7 DEF Rebuilding
  <2>2. \A u \in TaskIds : tasks'[u].pc \in Building \cup Tidying => Forced(u)'
    BY <1>5, <1>7, <2>1 DEF Rebuilding
  <2>3. Rebuilding'
    BY <1>1, <1>3, <1>4, <1>5, <1>7, <2>2 DEF Rebuilding
  <2> QED BY <1>2, <1>5, <2>3 DEF ReshapeInv
<1>8. Extending \/ Rebuilding
  <2>1. Forced(t) => \E o \in DOMAIN ops : Rebuild(o)
    BY OperationOf DEF Forced, Rebuild
  <2> QED BY <1>1, <2>1 DEF ReshapeInv, Calm, Refusing
<1> QED BY <1>6, <1>7, <1>8
\* After its commit the active index is of the wanted schema.
LEMMA PhaseActivate ==
  ASSUME ProjectionTyped, ReshapeInv, NEW t \in TaskIds, Activate(t)
  PROVE  ReshapeInv'
<1>1. UNCHANGED <<schema, reshapes, requeues>>
  BY TaskLeaves DEF TaskStep
<1>2. /\ Stepped(t) /\ Active' = {tasks[t].gen} /\ UNCHANGED ops
      /\ tasks[t].pc = "activate" /\ tasks[t].gen \in Generations
  BY ActivateStep
<1>3. tasks[t].pc \in Building /\ tasks[t].pc \notin Ended
  BY <1>2 DEF Building, Ended
<1>4. WaitsOnlyFor(t) /\ \A o \in DOMAIN ops : Awaiting(o)' <=> Awaiting(o)
  BY <1>2 DEF WaitsOnlyFor, Awaiting
<1>5. /\ requeues' \in Nat /\ (requeues' = 0 => Single')
      /\ TaskIds' = TaskIds /\ DOMAIN ops' = DOMAIN ops
      /\ \A u \in TaskIds : u # t => tasks'[u] = tasks[u]
      /\ \A u \in TaskIds : Forced(u)' <=> Forced(u)
      /\ \A o \in DOMAIN ops : Rebuild(o)' <=> Rebuild(o)
  BY <1>1, <1>2, <1>3, <1>4, PhaseKeeps
<1> DEFINE row == [status |-> "ACTIVE", schema |-> schema]
<1>6. gens' = [n \in Generations |-> IF n = tasks[t].gen THEN row
                                     ELSE IF n \in Active THEN Retired(gens[n]) ELSE gens[n]]
  BY DEF Activate
<1>7. row.schema = schema /\ IsSchema(schema) /\ \A n \in Generations : IsSchema(gens[n].schema)
  BY DEF ReshapeInv
<1> HIDE DEF row
<1>8. \A n \in Generations : IsSchema(gens'[n].schema)
  <2>1. \A n \in Generations : Retired(gens[n]).schema = gens[n].schema
    <3>1. \A n \in Generations : gens[n] = [status |-> gens[n].status, schema |-> gens[n].schema]
      BY DEF ProjectionTyped, GenerationRow
    <3> QED BY <3>1 DEF Retired
  <2> QED BY <1>6, <1>7, <2>1
<1>9. \A plans : "NO_CHANGE" \in plans => Planned(plans)'
  <2>1. gens'[tasks[t].gen].schema = schema'
    BY <1>1, <1>2, <1>6, <1>7
  <2>2. SchemaPlan(gens'[tasks[t].gen].schema, schema') = "NO_CHANGE"
    BY <2>1, PlanIs
  <2> QED BY <1>2, <2>2 DEF Planned, Plan
<1>10. CASE Extending
  <2>1. Extending'
    BY <1>1, <1>4, <1>5, <1>9, <1>10 DEF Extending
  <2> QED BY <1>1, <1>5, <1>7, <1>8, <2>1 DEF ReshapeInv
<1>11. CASE Rebuilding
  <2>1. \A u \in TaskIds : tasks'[u].pc \in Building \cup Tidying => Forced(u)'
    BY <1>3, <1>5, <1>11 DEF Rebuilding
  <2>2. Rebuilding'
    BY <1>1, <1>2, <1>4, <1>5, <1>9, <1>11, <2>1 DEF Rebuilding
  <2> QED BY <1>1, <1>5, <1>7, <1>8, <2>2 DEF ReshapeInv
<1>12. ~Quiet
  BY <1>3 DEF Quiet
<1> QED BY <1>10, <1>11, <1>12 DEF ReshapeInv, Calm, Refusing

\* The active index is not among those that a cleanup deletes.
LEMMA PhaseTidy ==
  ASSUME ProjectionTyped, AliasInv, ReshapeInv, NEW t \in TaskIds, Tidy(t)
  PROVE  ReshapeInv'
<1>1. UNCHANGED <<schema, reshapes, requeues>>
  BY TaskLeaves DEF TaskStep
<1>2. /\ Stepped(t) /\ UNCHANGED ops /\ tasks[t].pc = "tidy" /\ Delete(tasks[t].doomed)
      /\ Active' = Active \ tasks[t].doomed
      /\ tasks'[t].pc \in {"read", "complete", "relock"}
  BY TidyStep, WorkIs DEF Tidy
<1>3. Active = {tasks[t].gen} /\ tasks[t].gen \notin tasks[t].doomed
  BY <1>2 DEF AliasInv, Sound, Tidying
<1>4. tasks[t].doomed \in SUBSET Generations
  BY TaskRow DEF TaskRows
<1>5. Active' = Active /\ tasks[t].pc \notin Ended /\ tasks'[t].pc \notin Building \cup Tidying
  BY <1>2, <1>3 DEF Ended, Building, Tidying
<1>6. \A n \in Generations : IsSchema(gens[n].schema)
  BY DEF ReshapeInv
<1>7. /\ \A n \in Generations : IsSchema(gens'[n].schema)
      /\ \A n \in Active : gens'[n].schema = gens[n].schema
  <2>1. \A n \in Active : n \in Generations \ tasks[t].doomed
    BY <1>3 DEF Active
  <2> QED BY <1>2, <1>4, <1>6, <2>1, DeletedSchemas
<1>8. \A o \in DOMAIN ops : Awaiting(o)' => Awaiting(o)
  BY <1>2 DEF Awaiting
<1> QED BY <1>1, <1>2, <1>5, <1>7, <1>8, PhaseStays

LEMMA PhaseTask ==
  ASSUME ProjectionTyped, AliasInv, ReshapeInv, NEW t \in TaskIds,
         TaskStep(t) \/ TidyFails(t) \/ ServiceFails(t) \/ Crash(t)
  PROVE  ReshapeInv'
<1>1. CASE Ensure(t)
  <2>1. UNCHANGED <<schema, reshapes, requeues>>
    BY <1>1, TaskLeaves DEF TaskStep
  <2> QED BY <1>1, <2>1, PhaseEnsureCurrent, PhaseEnsureInPlace, PhaseEnsureRefuses, PhaseEnsureCreates
          DEF Ensure
<1> QED BY <1>1, PhaseSteps, PhaseFails, PhaseSwitch, PhaseActivate, PhaseTidy DEF TaskStep

LEMMA PhaseCleanup ==
  ASSUME ProjectionTyped, ReshapeInv, CleanupScript
  PROVE  ReshapeInv'
<1>1. /\ UNCHANGED <<schema, reshapes, requeues, ops, tasks>> /\ Active' = Active
  BY CleanupScriptStep DEF CleanupScript, databaseVars
<1>2. PICK n \in Active : Delete(Obsolete(n))
  BY DEF CleanupScript
<1>3. n \in Generations /\ Active = {n} /\ Obsolete(n) \in SUBSET Generations /\ n \notin Obsolete(n)
  BY <1>2, ActiveIs DEF Obsolete
<1>4. /\ IsSchema(schema) /\ \A m \in Generations : IsSchema(gens'[m].schema)
      /\ gens'[n] = gens[n]
  BY <1>2, <1>3, DeletedSchemas DEF ReshapeInv
<1>5. \A plans : Planned(plans)' <=> Planned(plans)
  BY <1>1, <1>3, <1>4 DEF Planned, Plan
<1>6. TaskIds' = TaskIds /\ (Single' <=> Single) /\ (Quiet' <=> Quiet)
  BY <1>1 DEF TaskIds, Single, Quiet, IsBatch, Awaiting
<1>7. /\ \A o : (Awaiting(o)' <=> Awaiting(o)) /\ (Rebuild(o)' <=> Rebuild(o))
      /\ \A t : Forced(t)' <=> Forced(t)
  BY <1>1 DEF Awaiting, Rebuild, Forced, IsBatch
<1>8. Calm' \/ Extending' \/ Refusing' \/ Rebuilding'
  <2>1. Calm => Calm'
    BY <1>1, <1>5, <1>6, <1>7 DEF Calm
  <2>2. Extending => Extending'
    BY <1>1, <1>5, <1>7 DEF Extending
  <2>3. Refusing => Refusing'
    BY <1>1, <1>5, <1>6, <1>7 DEF Refusing
  <2>4. Rebuilding => Rebuilding'
    BY <1>1, <1>5, <1>6, <1>7 DEF Rebuilding
  <2> QED BY <2>1, <2>2, <2>3, <2>4 DEF ReshapeInv
<1> QED BY <1>1, <1>4, <1>6, <1>8 DEF ReshapeInv
\* A request keeps the old workflows; its new ones are queued, and each belongs to a batch
\* or to the operation that the request creates.
LEMMA SingleRequested ==
  ASSUME ProjectionTyped, Single, Requested,
         \A o \in DOMAIN ops' : ops'[o].status = "AWAITING_USER" => o \in DOMAIN ops /\ Awaiting(o),
         \A t \in TaskIds' \ TaskIds : tasks'[t].op \notin DOMAIN ops /\ t = Len(tasks) + 1
  PROVE  Single'
<1>1. /\ \A t \in TaskIds : t \in TaskIds' /\ tasks'[t] = tasks[t]
      /\ \A t \in TaskIds' \ TaskIds : tasks'[t].pc = "queued"
  BY DEF Requested
<1>2. \A t \in TaskIds : IsBatch(t)' <=> IsBatch(t)
  BY <1>1 DEF IsBatch
<1>3. \A t \in TaskIds : ~IsBatch(t)' => tasks'[t].op \in DOMAIN ops
  BY <1>1, <1>2, OperationOf
<1>4. ASSUME NEW t \in TaskIds', NEW u \in TaskIds', tasks'[t].op = tasks'[u].op, ~IsBatch(t)',
             tasks'[t].pc \notin Ended, tasks'[u].pc \notin Ended
      PROVE  t = u
  <2>1. ~IsBatch(u)'
    BY <1>4 DEF IsBatch
  <2>2. CASE t \in TaskIds /\ u \in TaskIds
    BY <1>1, <1>2, <1>4, <2>2 DEF Single
  <2>3. CASE t \notin TaskIds \/ u \notin TaskIds
    <3>1. t \notin TaskIds /\ u \notin TaskIds
      BY <1>3, <1>4, <2>1, <2>3
    <3> QED BY <3>1
  <2> QED BY <2>2, <2>3
<1>5. ASSUME NEW o \in DOMAIN ops', NEW t \in TaskIds', Awaiting(o)', tasks'[t].op = o
      PROVE  tasks'[t].pc \in Ended
  <2>1. o \in DOMAIN ops /\ Awaiting(o)
    BY <1>5 DEF Awaiting
  <2>2. t \in TaskIds
    BY <1>5, <2>1
  <2> QED BY <1>1, <1>5, <2>1, <2>2 DEF Single
<1> QED BY <1>4, <1>5 DEF Single

\* A request that asks for no build and confirms none.
LEMMA PhaseRequested ==
  ASSUME ProjectionTyped, ReshapeInv, Requested, Active' = Active, UNCHANGED <<schema, reshapes>>,
         requeues' \in Nat, requeues' = 0 => requeues = 0, requeues' = 0 => Single',
         \A o \in DOMAIN ops : ops'[o].kind = ops[o].kind,
         \A o \in DOMAIN ops' \ DOMAIN ops : ops'[o].kind # "REBUILD",
         \A o \in DOMAIN ops' : ops'[o].status = "AWAITING_USER" => o \in DOMAIN ops /\ Awaiting(o)
  PROVE  ReshapeInv'
<1>1. /\ UNCHANGED gens
      /\ \A t \in TaskIds : t \in TaskIds' /\ tasks'[t] = tasks[t]
      /\ \A t \in TaskIds' \ TaskIds : tasks'[t].pc = "queued"
      /\ \A o \in DOMAIN ops : o \in DOMAIN ops'
  BY DEF Requested
<1>2. \A t \in TaskIds' : tasks'[t].pc \in Building \cup Tidying => t \in TaskIds /\ tasks'[t] = tasks[t]
  <2>1. "queued" \notin Building \cup Tidying
    BY DEF Building, Tidying
  <2> QED BY <1>1, <2>1
<1>3. IsSchema(schema) /\ \A n \in Generations : IsSchema(gens'[n].schema)
  BY <1>1 DEF ReshapeInv
<1>4. \A plans : Planned(plans)' <=> Planned(plans)
  BY <1>1 DEF Planned, Plan
<1>5. \A o \in DOMAIN ops' : Rebuild(o)' => o \in DOMAIN ops /\ Rebuild(o)
  BY DEF Rebuild
<1>6. \A o \in DOMAIN ops' : Awaiting(o)' => o \in DOMAIN ops /\ Awaiting(o)
  BY DEF Awaiting
<1>7. \A t \in TaskIds : Forced(t) => Forced(t)'
  BY <1>1, OperationOf DEF Forced, IsBatch
<1>8. Quiet => Quiet'
  BY <1>2 DEF Quiet
<1>9. Calm' \/ Extending' \/ Refusing' \/ Rebuilding'
  <2>1. Calm => Calm'
    BY <1>4, <1>5, <1>6, <1>8 DEF Calm
  <2>2. Extending => Extending'
    BY <1>4, <1>5, <1>6 DEF Extending
  <2>3. Refusing => Refusing'
    BY <1>4, <1>5, <1>8 DEF Refusing
  <2>4. ASSUME Rebuilding PROVE Rebuilding'
    <3>1. \A k, o \in DOMAIN ops' : Rebuild(k)' /\ Rebuild(o)' => k = o
      BY <1>5, <2>4 DEF Rebuilding
    <3>2. \A t \in TaskIds' : tasks'[t].pc \in Building \cup Tidying => Forced(t)'
      BY <1>2, <1>7, <2>4 DEF Rebuilding
    <3>3. requeues' = 0 => Planned({"NO_CHANGE"})' /\ \A o \in DOMAIN ops' : ~Awaiting(o)'
      BY <1>4, <1>6, <2>4 DEF Rebuilding
    <3> QED BY <1>4, <2>4, <3>1, <3>2, <3>3 DEF Rebuilding
  <2> QED BY <2>1, <2>2, <2>3, <2>4 DEF ReshapeInv
<1> QED BY <1>3, <1>9 DEF ReshapeInv

LEMMA PhaseChangeDocument ==
  ASSUME ProjectionTyped, ReshapeInv, NEW d \in MatterDocs, ChangeDocument(d)
  PROVE  ReshapeInv'
<1> DEFINE o == Len(ops) + 1
<1>1. UNCHANGED <<schema, reshapes, requeues>>
  BY DEF ChangeDocument
<1>2. /\ Requested /\ Active' = Active /\ o \notin DOMAIN ops /\ DOMAIN ops' = DOMAIN ops \cup {o}
      /\ ops'[o].kind = "DOCUMENT_UPSERT" /\ ops'[o].status = "QUEUED"
      /\ \A k \in DOMAIN ops : ops'[k] = ops[k]
      /\ \A t \in TaskIds' \ TaskIds : tasks'[t].op = o /\ t = Len(tasks) + 1
  <2>1. /\ Requested /\ Active' = Active /\ o \notin DOMAIN ops /\ DOMAIN ops' = DOMAIN ops \cup {o}
        /\ ops'[o] = [kind |-> "DOCUMENT_UPSERT", docs |-> {d}, status |-> "QUEUED", since |-> version']
        /\ \A k \in DOMAIN ops : ops'[k] = ops[k]
        /\ \A t \in TaskIds' \ TaskIds : tasks'[t].op = o /\ t = Len(tasks) + 1
    BY ChangeDocumentStep
  <2> HIDE DEF o
  <2> QED BY <2>1
<1> HIDE DEF o
<1>3. \A k \in DOMAIN ops' : ops'[k].status = "AWAITING_USER" => k \in DOMAIN ops /\ Awaiting(k)
  BY <1>2 DEF Awaiting
<1>4. requeues \in Nat /\ (requeues = 0 => Single)
  BY DEF ReshapeInv
<1>5. requeues' = 0 => Single'
  BY <1>1, <1>2, <1>3, <1>4, SingleRequested
<1> QED BY <1>1, <1>2, <1>3, <1>4, <1>5, PhaseRequested

LEMMA PhaseProjectBatch ==
  ASSUME ProjectionTyped, ReshapeInv, NEW b \in Batches, ProjectBatch(b)
  PROVE  ReshapeInv'
<1>1. UNCHANGED <<schema, reshapes, requeues>> /\ tasks' = Append(tasks, NewTask(0, b))
  BY DEF ProjectBatch
<1>2. /\ Requested /\ Active' = Active /\ UNCHANGED ops
      /\ \A t \in TaskIds' \ TaskIds : tasks'[t].op = 0
  BY ProjectBatchStep
<1>3. \A t \in TaskIds' \ TaskIds : tasks'[t].op \notin DOMAIN ops /\ t = Len(tasks) + 1
  <2>1. tasks \in Seq(TaskRows) /\ \A o \in DOMAIN ops : o # 0
    BY OperationRow DEF ProjectionTyped
  <2>2. TaskIds' \ TaskIds \subseteq {Len(tasks) + 1}
    BY <1>1, <2>1 DEF TaskIds
  <2> QED BY <1>2, <2>1, <2>2
<1>4. \A k \in DOMAIN ops' : ops'[k].status = "AWAITING_USER" => k \in DOMAIN ops /\ Awaiting(k)
  BY <1>2 DEF Awaiting
<1>5. requeues \in Nat /\ (requeues = 0 => Single)
  BY DEF ReshapeInv
<1>6. requeues' = 0 => Single'
  BY <1>1, <1>2, <1>3, <1>4, <1>5, SingleRequested
<1> QED BY <1>1, <1>2, <1>4, <1>5, <1>6, PhaseRequested

LEMMA PhaseRetry ==
  ASSUME ProjectionTyped, ReshapeInv, RetryFailed
  PROVE  ReshapeInv'
<1>1. UNCHANGED <<schema, reshapes>> /\ requeues' = requeues + 1
  BY DEF RetryFailed
<1>2. /\ Requested /\ Active' = Active /\ DOMAIN ops' = DOMAIN ops
      /\ \A o \in DOMAIN ops : ops'[o].kind = ops[o].kind /\ ops'[o].status \in {ops[o].status, "QUEUED"}
  BY RetryFailedStep
<1>3. \A k \in DOMAIN ops' : ops'[k].status = "AWAITING_USER" => k \in DOMAIN ops /\ Awaiting(k)
  BY <1>2 DEF Awaiting
<1>4. requeues' \in Nat /\ requeues' # 0
  BY <1>1 DEF ReshapeInv
<1> QED BY <1>1, <1>2, <1>3, <1>4, PhaseRequested

\* What was asked for once is not asked for again.
LEMMA AskedOnce ==
  ASSUME OneReshape, ReshapeInv
  PROVE  /\ reshapes < MaxReshapes => Calm
         /\ requeues < MaxRequeues => requeues = 0
<1>1. MaxReshapes \in Nat /\ MaxRequeues \in Nat
  BY ProjectionAssumption
<1>2. requeues \in Nat
  BY DEF ReshapeInv
<1>3. reshapes < MaxReshapes => reshapes # 1
  BY <1>1 DEF OneReshape
<1>4. reshapes < MaxReshapes => Calm
  BY <1>3 DEF ReshapeInv, Extending, Refusing, Rebuilding
<1> QED BY <1>1, <1>2, <1>4 DEF OneReshape

\* The change of a definition, when nothing was asked for.
LEMMA PhaseChangeSchema ==
  ASSUME OneReshape, ProjectionTyped, ReshapeInv, NEW s \in WantedSchemas, ChangeSchema(s)
  PROVE  ReshapeInv'
<1> DEFINE o == Len(ops) + 1
<1>1. /\ reshapes < MaxReshapes /\ schema' = s /\ reshapes' = reshapes + 1
      /\ UNCHANGED <<documents, version, batch, gens, index, alias, requeues>>
      /\ CreateOperation("SCHEMA_SYNC", {})
  BY DEF ChangeSchema
<1>2. Calm /\ requeues \in Nat /\ (requeues = 0 => Single) /\ reshapes = 0
  BY <1>1, AskedOnce DEF ReshapeInv, Calm
<1>3. /\ Requested /\ Active' = Active /\ o \notin DOMAIN ops /\ DOMAIN ops' = DOMAIN ops \cup {o}
      /\ ops'[o].kind = "SCHEMA_SYNC" /\ ops'[o].status = "QUEUED"
      /\ \A k \in DOMAIN ops : ops'[k] = ops[k]
      /\ \A t \in TaskIds' \ TaskIds : tasks'[t].op = o /\ t = Len(tasks) + 1
  <2>1. "SCHEMA_SYNC" \in OperationKinds /\ {} \in SUBSET MatterDocs
    BY DEF OperationKinds
  <2>2. /\ documents' \in Seq(MatterDocs) /\ batch' \in [Batches -> ProjectedBatches]
        /\ version' \in [MatterDocs -> Nat]
    BY <1>1 DEF ProjectionTyped
  <2>3. /\ Requested /\ Active' = Active /\ o \notin DOMAIN ops /\ DOMAIN ops' = DOMAIN ops \cup {o}
        /\ ops'[o] = [kind |-> "SCHEMA_SYNC", docs |-> {}, status |-> "QUEUED", since |-> version']
        /\ \A k \in DOMAIN ops : ops'[k] = ops[k]
        /\ \A t \in TaskIds' \ TaskIds : tasks'[t].op = o /\ t = Len(tasks) + 1
    BY <1>1, <2>1, <2>2, CreatedOperation
  <2> HIDE DEF o
  <2> QED BY <2>3
<1> HIDE DEF o
<1>4. \A k \in DOMAIN ops' : ops'[k].status = "AWAITING_USER" => k \in DOMAIN ops /\ Awaiting(k)
  BY <1>3 DEF Awaiting
<1>5. requeues' = 0 => Single'
  BY <1>1, <1>2, <1>3, <1>4, SingleRequested
<1>6. IsSchema(schema') /\ \A n \in Generations : IsSchema(gens'[n].schema)
  BY <1>1, ProjectionAssumption DEF ReshapeInv
<1>7. PICK n \in Active : Active = {n}
  BY <1>2, ActiveIs DEF Calm
<1>8. Planned({"NO_CHANGE", "IN_PLACE"})' \/ Planned({"REINDEX_REQUIRED"})'
  BY <1>3, <1>7, PlanIs DEF Planned, Plan
<1>9. \A k \in DOMAIN ops' : ~Rebuild(k)' /\ ~Awaiting(k)'
  BY <1>2, <1>3 DEF Calm, Rebuild, Awaiting
<1>10. Quiet'
  <2>1. "queued" \notin Building \cup Tidying
    BY DEF Building, Tidying
  <2> QED BY <1>2, <1>3, <2>1 DEF Calm, Quiet, Requested
<1>11. Extending' \/ Refusing'
  BY <1>1, <1>2, <1>3, <1>7, <1>8, <1>9, <1>10 DEF Extending, Refusing
<1> QED BY <1>1, <1>2, <1>5, <1>6, <1>11 DEF ReshapeInv

\* A rebuild that a user asks for, when nothing was asked for.
LEMMA PhaseRebuildIndex ==
  ASSUME OneReshape, ProjectionTyped, ReshapeInv, RebuildIndex
  PROVE  ReshapeInv'
<1> DEFINE o == Len(ops) + 1
<1>1. /\ reshapes < MaxReshapes /\ reshapes' = reshapes + 1
      /\ UNCHANGED <<documents, version, batch, schema, gens, index, alias, requeues>>
      /\ CreateOperation("REBUILD", {})
  BY DEF RebuildIndex
<1>2. Calm /\ requeues \in Nat /\ (requeues = 0 => Single) /\ reshapes = 0
  BY <1>1, AskedOnce DEF ReshapeInv, Calm
<1>3. /\ Requested /\ Active' = Active /\ o \notin DOMAIN ops /\ DOMAIN ops' = DOMAIN ops \cup {o}
      /\ ops'[o].status = "QUEUED"
      /\ \A k \in DOMAIN ops : ops'[k] = ops[k]
      /\ \A t \in TaskIds' \ TaskIds : tasks'[t].op = o /\ t = Len(tasks) + 1
  BY ReshapeStep
<1> HIDE DEF o
<1>4. \A k \in DOMAIN ops' : ops'[k].status = "AWAITING_USER" => k \in DOMAIN ops /\ Awaiting(k)
  BY <1>3 DEF Awaiting
<1>5. requeues' = 0 => Single'
  BY <1>1, <1>2, <1>3, <1>4, SingleRequested
<1>6. IsSchema(schema') /\ \A n \in Generations : IsSchema(gens'[n].schema)
  BY <1>1 DEF ReshapeInv
<1>7. Planned({"NO_CHANGE"})' /\ Planned({"NO_CHANGE", "REINDEX_REQUIRED"})'
  BY <1>1, <1>2, <1>3 DEF Calm, Planned, Plan
<1>8. \A k, m \in DOMAIN ops' : Rebuild(k)' /\ Rebuild(m)' => k = m
  <2>1. \A k \in DOMAIN ops' : Rebuild(k)' => k = o
    BY <1>2, <1>3 DEF Calm, Rebuild
  <2> QED BY <2>1
<1>9. \A k \in DOMAIN ops' : ~Awaiting(k)'
  BY <1>2, <1>3 DEF Calm, Awaiting
<1>10. \A t \in TaskIds' : tasks'[t].pc \notin Building \cup Tidying
  <2>1. "queued" \notin Building \cup Tidying
    BY DEF Building, Tidying
  <2> QED BY <1>2, <1>3, <2>1 DEF Calm, Quiet, Requested
<1>11. Rebuilding'
  BY <1>1, <1>2, <1>3, <1>7, <1>8, <1>9, <1>10 DEF Rebuilding, Calm
<1> QED BY <1>1, <1>2, <1>5, <1>6, <1>11 DEF ReshapeInv

\* The confirmation of the rebuild that the changed definition needs.
LEMMA PhaseConfirm ==
  ASSUME OneReshape, ProjectionTyped, ReshapeInv, NEW o \in DOMAIN ops, ConfirmReindex(o)
  PROVE  ReshapeInv'
<1>1. /\ requeues < MaxRequeues /\ requeues' = requeues + 1
      /\ UNCHANGED <<documents, version, batch, schema, gens, index, alias, reshapes>>
  BY DEF ConfirmReindex
<1>2. requeues = 0
  BY <1>1, AskedOnce
<1>3. /\ Requested /\ Active' = Active /\ DOMAIN ops' = DOMAIN ops /\ ops[o].status = "AWAITING_USER"
      /\ \A k \in DOMAIN ops : k # o => ops'[k] = ops[k]
  BY ConfirmReindexStep
<1>4. Refusing
  <2>1. Awaiting(o)
    BY <1>3 DEF Awaiting
  <2> QED BY <1>2, <2>1 DEF ReshapeInv, Calm, Extending, Rebuilding
<1>5. IsSchema(schema') /\ \A n \in Generations : IsSchema(gens'[n].schema)
  BY <1>1 DEF ReshapeInv
<1>6. Planned({"NO_CHANGE", "REINDEX_REQUIRED"})'
  BY <1>1, <1>3, <1>4 DEF Refusing, Planned, Plan
<1>7. \A k, m \in DOMAIN ops' : Rebuild(k)' /\ Rebuild(m)' => k = m
  <2>1. \A k \in DOMAIN ops' : Rebuild(k)' => k = o
    BY <1>3, <1>4 DEF Refusing, Rebuild
  <2> QED BY <2>1
<1>8. \A t \in TaskIds' : tasks'[t].pc \notin Building \cup Tidying
  <2>1. "queued" \notin Building \cup Tidying
    BY DEF Building, Tidying
  <2> QED BY <1>3, <1>4, <2>1 DEF Refusing, Quiet, Requested
<1>9. requeues' \in Nat /\ requeues' # 0
  BY <1>1, <1>2
<1>10. Rebuilding'
  BY <1>1, <1>3, <1>4, <1>6, <1>7, <1>8, <1>9 DEF Rebuilding, Refusing
<1> QED BY <1>5, <1>9, <1>10 DEF ReshapeInv
LEMMA PhaseNext ==
  ASSUME OneReshape
  PROVE  ProjectionTyped /\ AliasInv /\ ReshapeInv /\ [ProjectionNext]_projectionVars => ReshapeInv'
<1> SUFFICES ASSUME ProjectionTyped, AliasInv, ReshapeInv, [ProjectionNext]_projectionVars
             PROVE  ReshapeInv'
  OBVIOUS
<1>1. CASE ProjectionNext
  <2>1. CASE Request
    BY <2>1, PhaseChangeDocument, PhaseRebuildIndex, PhaseChangeSchema, PhaseConfirm, PhaseRetry,
       PhaseProjectBatch DEF Request
  <2>2. CASE CleanupScript
    BY <2>2, PhaseCleanup
  <2>3. CASE \E t \in TaskIds : TaskStep(t) \/ TidyFails(t) \/ ServiceFails(t) \/ Crash(t)
    BY <2>3, PhaseTask
  <2> QED BY <1>1, <2>1, <2>2, <2>3, NextIs
<1>2. CASE UNCHANGED projectionVars
  <2>1. /\ UNCHANGED <<schema, ops, tasks, gens, reshapes, requeues>>
        /\ TaskIds' = TaskIds /\ Active' = Active
    BY <1>2 DEF projectionVars, TaskIds, Active
  <2>2. /\ \A plans : Planned(plans)' <=> Planned(plans)
        /\ \A o : (Awaiting(o)' <=> Awaiting(o)) /\ (Rebuild(o)' <=> Rebuild(o))
        /\ \A t : (Forced(t)' <=> Forced(t)) /\ (IsBatch(t)' <=> IsBatch(t))
        /\ Quiet' <=> Quiet
    BY <2>1 DEF Planned, Plan, Awaiting, Rebuild, Forced, IsBatch, Quiet
  <2>3. Single' <=> Single
    BY <2>1, <2>2 DEF Single
  <2>4. Calm' \/ Extending' \/ Refusing' \/ Rebuilding'
    <3>1. Calm => Calm'
      BY <2>1, <2>2 DEF Calm
    <3>2. Extending => Extending'
      BY <2>1, <2>2 DEF Extending
    <3>3. Refusing => Refusing'
      BY <2>1, <2>2 DEF Refusing
    <3>4. Rebuilding => Rebuilding'
      BY <2>1, <2>2 DEF Rebuilding
    <3> QED BY <3>1, <3>2, <3>3, <3>4 DEF ReshapeInv
  <2> QED BY <2>1, <2>3, <2>4 DEF ReshapeInv
<1> QED BY <1>1, <1>2

LEMMA PhaseStarts ==
  ProjectionInit => ReshapeInv
<1> SUFFICES ASSUME ProjectionInit
             PROVE  ReshapeInv
  OBVIOUS
<1>1. ops = <<>> /\ tasks = <<>> /\ schema = FirstSchema /\ requeues = 0
  BY DEF ProjectionInit
<1>2. DOMAIN ops = {} /\ TaskIds = {} /\ requeues \in Nat
  BY <1>1 DEF TaskIds
<1>3. Single /\ Quiet
  BY <1>2 DEF Single, Quiet
<1>4. NoGeneration.status = "NONE" /\ NoGeneration.schema = OlderSchema /\ IsSchema(OlderSchema)
      /\ IsSchema(FirstSchema) /\ 1 \in Generations
  BY ProjectionAssumption DEF NoGeneration, Generations
<1>5. CASE gens = [n \in Generations |-> NoGeneration] /\ reshapes = 1
  <2>1. Active = {} /\ \A n \in Generations : gens[n].schema = OlderSchema
    BY <1>4, <1>5 DEF Active
  <2>2. Extending
    BY <1>2, <1>5, <2>1 DEF Extending, Planned
  <2> QED BY <1>1, <1>2, <1>3, <1>4, <2>1, <2>2 DEF ReshapeInv
<1>6. ASSUME NEW s \in {FirstSchema, OlderSchema},
             gens = [n \in Generations |-> IF n = 1 THEN [status |-> "ACTIVE", schema |-> s] ELSE NoGeneration],
             reshapes = (IF s = FirstSchema THEN 0 ELSE 1)
      PROVE  ReshapeInv
  <2> DEFINE row == [status |-> "ACTIVE", schema |-> s]
  <2>1. row.status = "ACTIVE" /\ row.schema = s /\ IsSchema(s)
    BY <1>4
  <2>2. \A n \in Generations : gens[n] = IF n = 1 THEN row ELSE NoGeneration
    BY <1>6
  <2> HIDE DEF row
  <2>3. Active = {1} /\ Plan(1) = SchemaPlan(s, FirstSchema)
    BY <1>1, <1>4, <2>1, <2>2 DEF Active, Plan
  <2>4. \A n \in Generations : IsSchema(gens[n].schema)
    BY <1>4, <2>1, <2>2
  <2>5. CASE s = FirstSchema
    <3>1. Calm
      BY <1>2, <1>3, <1>6, <2>3, <2>5, PlanIs DEF Calm, Planned
    <3> QED BY <1>1, <1>2, <1>3, <1>4, <2>4, <3>1 DEF ReshapeInv
  <2>6. CASE s # FirstSchema
    <3>1. Planned({"NO_CHANGE", "IN_PLACE"}) \/ Planned({"REINDEX_REQUIRED"})
      BY <2>3, PlanIs DEF Planned
    <3>2. Extending \/ Refusing
      BY <1>2, <1>3, <1>6, <2>3, <2>6, <3>1 DEF Extending, Refusing
    <3> QED BY <1>1, <1>2, <1>3, <1>4, <2>4, <3>2 DEF ReshapeInv
  <2> QED BY <2>5, <2>6
<1> QED BY <1>5, <1>6 DEF ProjectionInit

\* How a task's step moves the others, and no operation into a queue.
LEMMA TaskSteps ==
  ASSUME ProjectionTyped, NEW t \in TaskIds, TaskStep(t) \/ TidyFails(t) \/ ServiceFails(t) \/ Crash(t)
  PROVE  /\ \A u \in TaskIds : u # t => tasks'[u] = tasks[u]
         /\ \A o \in DOMAIN ops : ops'[o].status = "QUEUED" => ops[o].status = "QUEUED"
         /\ (At(t, "ensure") /\ tasks'[t].pc \in {"fill", "list"}) => Ensure(t)
<1>1. ASSUME NEW s \in {"RUNNING", "FAILED", "AWAITING_USER", "COMPLETED"}, Statuses(t, s) \/ UNCHANGED ops
      PROVE  \A o \in DOMAIN ops : ops'[o].status = "QUEUED" => ops[o].status = "QUEUED"
  BY <1>1 DEF Statuses
<1>2. ASSUME Stepped(t)
      PROVE  \A u \in TaskIds : u # t => tasks'[u] = tasks[u]
  BY <1>2, TaskMoved DEF Stepped
<1>3. CASE Ensure(t)
  <2>1. /\ Stepped(t)
        /\ Statuses(t, "FAILED") \/ Statuses(t, "AWAITING_USER") \/ UNCHANGED ops
    BY <1>3, EnsureCurrentStep, EnsureInPlaceStep, EnsureRefusesStep, EnsureCreatesStep DEF Ensure
  <2> QED BY <1>1, <1>2, <1>3, <2>1
<1>4. CASE Begin(t) \/ Fill(t) \/ SwitchAlias(t) \/ Activate(t) \/ ListObsolete(t) \/ Tidy(t)
  <2>1. /\ Stepped(t) /\ ~At(t, "ensure")
        /\ Statuses(t, "FAILED") \/ Statuses(t, "RUNNING") \/ UNCHANGED ops
    BY <1>4, BeginStep, FillStep, SwitchStep, ActivateStep, ListStep, TidyStep DEF At
  <2> QED BY <1>1, <1>2, <2>1
<1>5. CASE ReadDocuments(t) \/ WriteDocuments(t) \/ Complete(t) \/ UpdateMembers(t) \/ CommitSynced(t)
  <2>1. /\ Stepped(t) /\ ~At(t, "ensure")
        /\ Statuses(t, "FAILED") \/ Statuses(t, "COMPLETED") \/ UNCHANGED ops
    BY <1>5, ReadDocumentsStep, WriteDocumentsStep, CompleteStep, UpdateMembersStep, CommitSyncedStep DEF At
  <2> QED BY <1>1, <1>2, <2>1
<1>6. CASE TidyFails(t) \/ ServiceFails(t) \/ Crash(t)
  <2>1. /\ Stepped(t) /\ (At(t, "ensure") => tasks'[t].pc \notin {"fill", "list"})
        /\ Statuses(t, "FAILED") \/ UNCHANGED ops
    BY <1>6, TidyFailsStep, ServiceFailsStep, CrashStep DEF At
  <2> QED BY <1>1, <1>2, <2>1
<1> QED BY <1>3, <1>4, <1>5, <1>6 DEF TaskStep

\* An index is built when no cleanup is under way, and one is extended that the alias names.
LEMMA EnsureInTurn ==
  ASSUME ProjectionTyped, AliasInv, ContentInv, ReshapeInv, NEW t \in TaskIds, Ensure(t)
  PROVE  /\ tasks'[t].pc = "fill" => \A u \in TaskIds : tasks[u].pc \notin Tidying
         /\ tasks'[t].pc = "list" => alias = {tasks'[t].gen}
<1>1. At(t, "ensure") /\ tasks[t].pc \notin Ended \cup Tidying \cup Building
  BY DEF Ensure, At, Ended, Tidying, Building
<1>2. ASSUME NEW n \in Active, EnsureCurrent(t, n)
      PROVE  tasks'[t].pc \notin {"fill", "list"}
  BY <1>1, <1>2, EnsureCurrentStep, WorkIs
<1>3. ASSUME NEW n \in Active, EnsureInPlace(t, n)
      PROVE  /\ tasks'[t].pc # "fill"
             /\ tasks'[t].pc = "list" => alias = {tasks'[t].gen}
  <2>1. Plan(n) = "IN_PLACE"
    BY <1>3 DEF EnsureInPlace
  <2>2. Extending
    BY <2>1 DEF ReshapeInv, Calm, Refusing, Rebuilding, Planned
  <2>3. \A u \in TaskIds : ~Forced(u)
    BY <2>2, OperationOf DEF Extending, Rebuild, Forced
  <2>4. alias = Active /\ Active = {n}
    BY <2>3, ActiveIs DEF ContentInv, Repairing
  <2> QED BY <1>1, <1>3, <2>4, EnsureInPlaceStep
<1>4. ASSUME NEW n \in Active, EnsureRefuses(t, n)
      PROVE  tasks'[t].pc \notin {"fill", "list"}
  BY <1>1, <1>4, EnsureRefusesStep
<1>5. ASSUME EnsureCreates(t)
      PROVE  tasks'[t].pc = "fill" /\ \A u \in TaskIds : tasks[u].pc \notin Tidying
  <2>1. tasks'[t].pc = "fill" /\ (Active = {} \/ Forced(t))
    BY <1>1, <1>5, EnsureCreatesStep
  <2>2. ASSUME NEW u \in TaskIds, tasks[u].pc \in Tidying
        PROVE  FALSE
    <3>1. Active # {}
      BY <2>2 DEF AliasInv, Sound
    <3>2. Forced(t) /\ tasks[t].op \in DOMAIN ops /\ Rebuild(tasks[t].op)
      BY <2>1, <3>1, OperationOf DEF Forced, Rebuild
    <3>3. Rebuilding
      BY <3>2 DEF ReshapeInv, Calm, Extending, Refusing
    <3>4. Forced(u) /\ tasks[u].op \in DOMAIN ops /\ Rebuild(tasks[u].op)
      BY <2>2, <3>3, OperationOf DEF Rebuilding, Forced, Rebuild
    <3>5. tasks[u].op = tasks[t].op /\ tasks[u].pc \notin Ended
      BY <2>2, <3>2, <3>3, <3>4 DEF Rebuilding, Tidying, Ended
    <3>6. u = t
      BY <1>1, <3>2, <3>5 DEF ContentInv, Rebuilds
    <3> QED BY <1>1, <2>2, <3>6
  <2> QED BY <2>1, <2>2
<1> QED BY <1>2, <1>3, <1>4, <1>5 DEF Ensure

\* A confirmed rebuild is its operation's only workflow.
LEMMA ConfirmInTurn ==
  ASSUME OneReshape, ProjectionTyped, ReshapeInv, Request, NEW o \in DOMAIN ops,
         ops[o].status = "AWAITING_USER", ops'[o].status = "QUEUED"
  PROVE  \A t \in TaskIds : tasks[t].op = o => tasks[t].pc \in Ended
<1>1. CASE \E d \in MatterDocs : ChangeDocument(d)
  BY <1>1, ChangeDocumentStep
<1>2. CASE RebuildIndex \/ \E s \in WantedSchemas : ChangeSchema(s)
  BY <1>2, ReshapeStep
<1>3. CASE \E k \in DOMAIN ops : ConfirmReindex(k)
  <2>1. requeues = 0
    BY <1>3, AskedOnce DEF ConfirmReindex
  <2>2. Single /\ Awaiting(o)
    BY <2>1 DEF ReshapeInv, Awaiting
  <2> QED BY <2>2 DEF Single
<1>4. CASE RetryFailed
  BY <1>4 DEF RetryFailed
<1>5. CASE \E b \in Batches : ProjectBatch(b)
  BY <1>5, ProjectBatchStep
<1> QED BY <1>1, <1>2, <1>3, <1>4, <1>5 DEF Request

LEMMA OneIsInTurn ==
  ASSUME OneReshape, ProjectionTyped, AliasInv, ContentInv, ReshapeInv, [ProjectionNext]_projectionVars
  PROVE  [ProjectionNext /\ InTurn]_projectionVars
<1>1. CASE Request
  <2>1. \A t \in TaskIds : tasks'[t] = tasks[t]
    BY <1>1, RequestStep DEF Requested
  <2> QED BY <1>1, <2>1, ConfirmInTurn DEF InTurn, At
<1>2. CASE CleanupScript
  BY <1>2, CleanupScriptStep DEF InTurn, At
<1>3. ASSUME NEW t \in TaskIds, TaskStep(t) \/ TidyFails(t) \/ ServiceFails(t) \/ Crash(t)
      PROVE  InTurn
  <2>1. \A o \in DOMAIN ops : ops'[o].status = "QUEUED" => ops[o].status = "QUEUED"
    BY <1>3, TaskSteps
  <2>2. ASSUME NEW u \in TaskIds, At(u, "ensure"), tasks'[u].pc \in {"fill", "list"}
        PROVE  Ensure(u)
    <3>1. u = t
      BY <1>3, <2>2, TaskSteps DEF At
    <3> QED BY <1>3, <2>2, <3>1, TaskSteps
  <2>3. ASSUME NEW u \in TaskIds, At(u, "ensure")
        PROVE  /\ tasks'[u].pc = "fill" => \A v \in TaskIds : tasks[v].pc \notin {"list", "tidy"}
               /\ tasks'[u].pc = "list" => alias = {tasks'[u].gen}
    BY <2>2, <2>3, EnsureInTurn DEF Tidying
  <2> QED BY <2>1, <2>3 DEF InTurn
<1> QED BY <1>1, <1>2, <1>3, NextIs

\* With one change of the schema, or one rebuild, and one confirmation or retry, cleanups and
\* builds take turns, whatever crashes, fails or interleaves: what the theorems above say of
\* orderly projections holds of every behaviour.
THEOREM OneReshapeIsInTurn == ASSUME OneReshape PROVE ProjectionSpec => OrderlyProjection
<1>1. ProjectionInit => ProjectionTyped /\ AliasInv /\ ContentInv /\ ReshapeInv
  BY ProjectionStarts, ContentStarts, PhaseStarts
<1>2. ProjectionTyped /\ AliasInv /\ ContentInv /\ ReshapeInv /\ [ProjectionNext]_projectionVars
        => /\ ProjectionTyped' /\ AliasInv' /\ ContentInv' /\ ReshapeInv'
           /\ [ProjectionNext /\ InTurn]_projectionVars
  BY TypedSteps, AliasSteps, ContentSteps, PhaseNext, OneIsInTurn
<1> QED BY <1>1, <1>2, PTL DEF ProjectionSpec, OrderlyProjection
=============================================================================

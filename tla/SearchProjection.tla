---------------------------- MODULE SearchProjection ----------------------------
(***************************************************************************)
(* The projection of a matter's documents into its search index            *)
(* (app/search/service.py, operations.py, app/routers/search.py,           *)
(* app/workflows/search_projection.py) together with the projection of     *)
(* review batches, which ReviewBatchBuild builds.                          *)
(*                                                                         *)
(* An operation row and its workflow are created in one transaction.  A    *)
(* workflow has one step: mark the operation RUNNING, make sure that the   *)
(* matter has an index of the wanted schema behind its alias, read the     *)
(* documents, write them, mark the operation COMPLETED.  The index service *)
(* shares no transaction with the database, whose advisory lock for the    *)
(* matter ends with every commit: the steps below are the intervals        *)
(* between calls of the service and commits.                               *)
(***************************************************************************)
EXTENDS ReviewBatchBuild, SearchSchema

CONSTANTS
    FirstSchema,     \* the schema the matter's definitions compile to at first
    WantedSchemas,   \* the schemas that the matter's definitions may compile to
    OlderSchema,     \* the schema of an index that an earlier release created
    MaxVersion,      \* bound on the changes of a document
    MaxOperations,   \* bound on the operations that are created
    MaxTasks,        \* bound on the workflows that are enqueued
    MaxIndexes,      \* bound on the numbers of index generations
    MaxRequeues,     \* bound on the times that operations are queued again
    MaxReshapes,     \* bound on the builds and schema changes that are asked for
    Concurrency,     \* workflows of the queue that run at a time
    MaxAttempts,     \* attempts of a step
    MaxFaults        \* bound on crashes and service failures

ASSUME ProjectionAssumption ==
    /\ MatterDocs # {}
    /\ {MaxVersion, MaxOperations, MaxTasks, MaxRequeues, MaxReshapes, MaxFaults} \subseteq Nat
    /\ {MaxIndexes, Concurrency, MaxAttempts} \subseteq Nat \ {0}
    /\ \A s \in WantedSchemas \cup {FirstSchema, OlderSchema} : IsSchema(s)

VARIABLES
    version,  \* version[d]: the committed state of document d, 0 before it is added
    schema,   \* the schema compiled from the committed definitions
    ops,      \* the operation rows in the order of their creation
    tasks,    \* the workflows, with the progress of their step
    gens,     \* gens[n]: the committed row of generation n
    index,    \* index[n]: the physical index of generation n
    alias,    \* the indexes the matter's alias points to
    reshapes, requeues, faults

projectionVars == <<documents, batch, version, schema, ops, tasks, gens, index, alias,
                    reshapes, requeues, faults>>
databaseVars == <<documents, version, schema, reshapes, requeues>>

Generations == 1..MaxIndexes
GenerationStatus == {"NONE", "ACTIVE", "RETIRED", "FAILED"}
OperationStatus == {"QUEUED", "RUNNING", "AWAITING_USER", "COMPLETED", "FAILED"}
OperationKinds == {"SCHEMA_SYNC", "REBUILD", "DOCUMENT_UPSERT"}

NoGeneration == [status |-> "NONE", schema |-> OlderSchema]
Absent == [version |-> 0, batches |-> {}]
EmptyIndex == [d \in MatterDocs |-> Absent]
Missing == [d \in {} |-> Absent]
Exists(n) == index[n] # Missing
Active == {n \in Generations : gens[n].status = "ACTIVE"}

\* A workflow of an operation (op), or of a batch (op = 0).
NewTask(op, b) == [op |-> op, batch |-> b, pc |-> "queued", gen |-> 0, attempts |-> 0,
                   read |-> EmptyIndex, doomed |-> {}]

TaskIds == DOMAIN tasks
Ended == {"done", "error"}
\* Between these steps a workflow holds the advisory lock of the matter.
Locking == {"fill", "switch", "activate", "synced"}
LockFree == \A t \in TaskIds : tasks[t].pc \notin Locking

\* The batches have been created, for all documents of the matter.
ProjectionInit ==
    /\ documents = <<>>
    /\ batch = [b \in Batches |-> [NoReviewBatch EXCEPT !.status = "QUEUED", !.build = "materialize"]]
    /\ version = [d \in MatterDocs |-> 0]
    /\ schema = FirstSchema
    /\ ops = <<>> /\ tasks = <<>>
    /\ \/ /\ gens = [n \in Generations |-> NoGeneration]
          /\ index = [n \in Generations |-> Missing]
          /\ alias = {} /\ reshapes = 1
       \/ \E s \in {FirstSchema, OlderSchema} :
          /\ gens = [n \in Generations |-> IF n = 1 THEN [status |-> "ACTIVE", schema |-> s] ELSE NoGeneration]
          /\ index = [n \in Generations |-> IF n = 1 THEN EmptyIndex ELSE Missing]
          /\ alias = {1} /\ reshapes = (IF s = FirstSchema THEN 0 ELSE 1)
    /\ requeues = 0 /\ faults = 0

(***************************************************************************)
(* Requests: each commits a change of the database together with an        *)
(* operation and its workflow.                                             *)
(***************************************************************************)
Room(n) == Len(ops) + n <= MaxOperations /\ Len(tasks) + n <= MaxTasks

CreateOperation(kind, docs) ==
    /\ Room(1)
    /\ ops' = Append(ops, [kind |-> kind, docs |-> docs, status |-> "QUEUED", since |-> version'])
    /\ tasks' = Append(tasks, NewTask(Len(ops) + 1, NoBatch))

\* An import adds a document, or an event changes its metadata.
ChangeDocument(d) ==
    /\ version[d] < MaxVersion
    /\ version' = [version EXCEPT ![d] = @ + 1]
    /\ documents' = IF version[d] = 0 THEN Append(documents, d) ELSE documents
    /\ CreateOperation("DOCUMENT_UPSERT", {d})
    /\ UNCHANGED <<batch, schema, gens, index, alias, reshapes, requeues, faults>>

\* A definition is created or changed.
ChangeSchema(s) ==
    /\ s # schema /\ reshapes < MaxReshapes
    /\ schema' = s /\ reshapes' = reshapes + 1
    /\ UNCHANGED version
    /\ CreateOperation("SCHEMA_SYNC", {})
    /\ UNCHANGED <<documents, batch, gens, index, alias, requeues, faults>>

\* A user asks for a rebuild, or confirms the one an operation waits for.
RebuildIndex ==
    /\ reshapes < MaxReshapes
    /\ reshapes' = reshapes + 1
    /\ UNCHANGED version
    /\ CreateOperation("REBUILD", {})
    /\ UNCHANGED <<documents, batch, schema, gens, index, alias, requeues, faults>>

ConfirmReindex(o) ==
    /\ ops[o].status = "AWAITING_USER"
    /\ requeues < MaxRequeues /\ requeues' = requeues + 1
    /\ Len(tasks) < MaxTasks
    /\ ops' = [ops EXCEPT ![o].kind = "REBUILD", ![o].status = "QUEUED"]
    /\ tasks' = Append(tasks, NewTask(o, NoBatch))
    /\ UNCHANGED <<documents, batch, version, schema, gens, index, alias, reshapes, faults>>

\* All failed upserts are queued again, each with a new workflow: its first one
\* may still be about to try again.
RetryFailed ==
    LET failed == {o \in DOMAIN ops : ops[o].kind = "DOCUMENT_UPSERT" /\ ops[o].status = "FAILED"}
    IN  /\ requeues < MaxRequeues /\ requeues' = requeues + 1
        /\ failed # {} /\ Len(tasks) + Cardinality(failed) <= MaxTasks
        /\ ops' = [o \in DOMAIN ops |-> IF o \in failed THEN [ops[o] EXCEPT !.status = "QUEUED"] ELSE ops[o]]
        /\ tasks' = tasks \o [i \in 1..Cardinality(failed) |-> NewTask(SetToSeq(failed)[i], NoBatch)]
        /\ UNCHANGED <<documents, batch, version, schema, gens, index, alias, reshapes, faults>>

\* The build of a batch selects its documents and goes on to its second step.
ProjectBatch(b) ==
    /\ Len(tasks) < MaxTasks
    /\ Materialize(b)
    /\ tasks' = Append(tasks, NewTask(0, b))
    /\ UNCHANGED <<version, schema, ops, gens, index, alias, reshapes, requeues, faults>>

(***************************************************************************)
(* The step of a workflow.                                                 *)
(***************************************************************************)
At(t, pc) == tasks[t].pc = pc
Goto(t, pc) == tasks' = [tasks EXCEPT ![t].pc = pc]
Finish(t) == tasks' = [tasks EXCEPT ![t] = [NewTask(@.op, @.batch) EXCEPT !.pc = "done"]]
IsBatch(t) == tasks[t].op = 0
SetOperation(t, status) ==
    IF IsBatch(t) THEN UNCHANGED ops ELSE ops' = [ops EXCEPT ![tasks[t].op].status = status]
SetSearch(t, status) ==
    IF IsBatch(t) THEN batch' = [batch EXCEPT ![tasks[t].batch].search = status] ELSE UNCHANGED batch

\* The workflows of a queue that run.
Running(isBatch) == {t \in TaskIds : IsBatch(t) = isBatch /\ tasks[t].pc \notin Ended \cup {"queued"}}

\* The queue starts a workflow, or an attempt begins anew.  A completed operation is
\* left alone.
Begin(t) ==
    /\ At(t, "begin") \/ (At(t, "queued") /\ Cardinality(Running(IsBatch(t))) < Concurrency)
    /\ IF ~IsBatch(t) /\ ops[tasks[t].op].status = "COMPLETED"
       THEN Finish(t) /\ UNCHANGED <<ops, batch>>
       ELSE Goto(t, "ensure") /\ SetOperation(t, "RUNNING") /\ SetSearch(t, "SYNCING")
    /\ UNCHANGED <<databaseVars, gens, index, alias, faults>>

\* A step without retries.
MutantFailedTask(t) == [NewTask(tasks[t].op, tasks[t].batch) EXCEPT !.pc = "error"]

\* What ends an attempt with an exception: FAILED is committed, the step is tried
\* again unless its attempts are used up.
FailedTask(t) ==
    [NewTask(tasks[t].op, tasks[t].batch) EXCEPT
        !.attempts = IF tasks[t].attempts + 1 = MaxAttempts THEN 0 ELSE tasks[t].attempts + 1,
        !.pc = IF tasks[t].attempts + 1 = MaxAttempts THEN "error" ELSE "begin"]

Fail(t) ==
    /\ tasks' = [tasks EXCEPT ![t] = FailedTask(t)]
    /\ SetOperation(t, "FAILED") /\ SetSearch(t, "FAILED")

Forced(t) == ~IsBatch(t) /\ ops[tasks[t].op].kind = "REBUILD"
Plan(n) == SchemaPlan(gens[n].schema, schema)

\* After ensure: write documents or a batch's membership, or finish.
Work(t) == IF IsBatch(t) THEN "relock"
           ELSE IF ops[tasks[t].op].kind = "DOCUMENT_UPSERT" THEN "read" ELSE "complete"

\* A cleanup that takes the index with the newest number for the active one.
MutantObsolete(n) == {m \in Generations : \E k \in Generations : k > m /\ Exists(k)}

\* Every other generation and index of the matter.
Obsolete(n) == {m \in Generations \ {n} : gens[m].status # "NONE" \/ Exists(m)}

\* The indexes are deleted, then their rows; the commit ends the lock.
Delete(doomed) ==
    /\ index' = [n \in Generations |-> IF n \in doomed THEN Missing ELSE index[n]]
    /\ gens' = [n \in Generations |-> IF n \in doomed THEN NoGeneration ELSE gens[n]]

\* A check of the alias that is satisfied with whatever it points to.
MutantRepaired(n) == alias

\* What the alias points to after a check.
Repaired(n) == {n}

\* The active index is the wanted one: the alias is repaired and the obsolete
\* indexes are deleted under the lock; a failure of the cleanup is forgotten.
EnsureCurrent(t, n) ==
    /\ ~Forced(t) /\ Plan(n) = "NO_CHANGE"
    /\ IF alias # {n} /\ ~Exists(n) THEN Fail(t) /\ UNCHANGED <<index, alias, gens, faults>>
       ELSE /\ alias' = Repaired(n)
            /\ tasks' = [tasks EXCEPT ![t].pc = Work(t), ![t].gen = n]
            /\ UNCHANGED <<ops, batch>>
            /\ \/ Delete(Obsolete(n)) /\ UNCHANGED faults
               \/ /\ Obsolete(n) # {} /\ faults < MaxFaults /\ faults' = faults + 1
                  /\ UNCHANGED <<index, gens>>
    /\ UNCHANGED databaseVars

\* It can be extended: the commit of its schema ends the lock.
EnsureInPlace(t, n) ==
    /\ ~Forced(t) /\ Plan(n) = "IN_PLACE"
    /\ IF ~Exists(n) THEN Fail(t) /\ UNCHANGED gens
       ELSE /\ gens' = [gens EXCEPT ![n].schema = MappingUpdate(@, schema)]
            /\ tasks' = [tasks EXCEPT ![t].pc = "list", ![t].gen = n]
            /\ UNCHANGED <<ops, batch>>
    /\ UNCHANGED <<databaseVars, index, alias, faults>>

\* It must be rebuilt: the operation waits for a user, a batch fails.
EnsureRefuses(t, n) ==
    /\ ~Forced(t) /\ Plan(n) = "REINDEX_REQUIRED"
    /\ IF IsBatch(t) THEN Fail(t)
       ELSE SetOperation(t, "AWAITING_USER") /\ Finish(t) /\ UNCHANGED batch
    /\ UNCHANGED <<databaseVars, gens, index, alias, faults>>

\* The number after the latest row's that no index has.
NextGeneration ==
    LET latest == {n \in Generations : gens[n].status # "NONE"}
        free == {n \in Generations : ~Exists(n) /\ \A m \in latest : n > m}
    IN  CHOOSE n \in free \cup {0} : (free = {} /\ n = 0) \/ (n \in free /\ \A m \in free : n <= m)

\* There is no index or a rebuild: the row stays uncommitted while it is built.
EnsureCreates(t) ==
    /\ Active = {} \/ Forced(t)
    /\ NextGeneration # 0
    /\ index' = [index EXCEPT ![NextGeneration] = EmptyIndex]
    /\ tasks' = [tasks EXCEPT ![t].pc = "fill", ![t].gen = NextGeneration]
    /\ UNCHANGED <<databaseVars, batch, ops, gens, alias, faults>>

Ensure(t) ==
    /\ At(t, "ensure") /\ LockFree
    /\ \/ \E n \in Active : EnsureCurrent(t, n) \/ EnsureInPlace(t, n) \/ EnsureRefuses(t, n)
       \/ EnsureCreates(t)

\* The READY batches of a document.
Memberships(d) == {b \in Batches : IsReady(b) /\ d \in MembersOf(b)}

\* What is written for a set of documents.
Projection(docs) ==
    [d \in MatterDocs |-> IF d \in docs /\ version[d] > 0
                          THEN [version |-> version[d], batches |-> Memberships(d)] ELSE Absent]

\* A bulk write; the service creates an index that is missing.
Write(n, read) ==
    index' = [index EXCEPT ![n] = [d \in MatterDocs |->
                 IF read[d] # Absent THEN read[d] ELSE IF Exists(n) THEN index[n][d] ELSE Absent]]

\* All documents are read and written.  Nothing reads the new index before the
\* alias points to it: one step.
Fill(t) ==
    /\ At(t, "fill")
    /\ Write(tasks[t].gen, Projection(ToSet(documents)))
    /\ Goto(t, "switch")
    /\ UNCHANGED <<databaseVars, batch, ops, gens, alias, faults>>

\* The service refuses an alias of a missing index; then the row is committed FAILED.
FailBuild(t) ==
    /\ gens' = [gens EXCEPT ![tasks[t].gen] = [status |-> "FAILED", schema |-> schema]]
    /\ Fail(t)

SwitchAlias(t) ==
    /\ At(t, "switch")
    /\ IF Exists(tasks[t].gen)
       THEN /\ alias' = {tasks[t].gen}
            /\ Goto(t, "activate")
            /\ UNCHANGED <<gens, ops, batch>>
       ELSE FailBuild(t) /\ UNCHANGED alias
    /\ UNCHANGED <<databaseVars, index, faults>>

\* The row of the index that was active stays as it is.
MutantRetired(row) == row

Retired(row) == [row EXCEPT !.status = "RETIRED"]

\* The commit ends the lock; the cleanup follows without it.
Activate(t) ==
    /\ At(t, "activate")
    /\ gens' = [n \in Generations |->
                  IF n = tasks[t].gen THEN [status |-> "ACTIVE", schema |-> schema]
                  ELSE IF n \in Active THEN Retired(gens[n]) ELSE gens[n]]
    /\ Goto(t, "list")
    /\ UNCHANGED <<databaseVars, batch, ops, index, alias, faults>>

ListObsolete(t) ==
    /\ At(t, "list")
    /\ tasks' = [tasks EXCEPT ![t].pc = "tidy", ![t].doomed = Obsolete(tasks[t].gen)]
    /\ UNCHANGED <<databaseVars, batch, ops, gens, index, alias, faults>>

Tidy(t) ==
    /\ At(t, "tidy")
    /\ Delete(tasks[t].doomed)
    /\ alias' = alias \ tasks[t].doomed
    /\ tasks' = [tasks EXCEPT ![t].pc = Work(t), ![t].doomed = {}]
    /\ UNCHANGED <<databaseVars, batch, ops, faults>>

\* A failure of the cleanup is logged and forgotten.
TidyFails(t) ==
    /\ At(t, "tidy")
    /\ faults < MaxFaults /\ faults' = faults + 1
    /\ tasks' = [tasks EXCEPT ![t].pc = Work(t), ![t].doomed = {}]
    /\ UNCHANGED <<databaseVars, batch, ops, gens, index, alias>>

\* The maintenance script, under the lock: only when the alias points to the active
\* index alone and that index exists.
CleanupScript ==
    /\ LockFree
    /\ \E n \in Active : /\ alias = {n} /\ Exists(n) /\ Obsolete(n) # {}
                         /\ Delete(Obsolete(n))
    /\ UNCHANGED <<databaseVars, batch, ops, tasks, alias, faults>>

ReadDocuments(t) ==
    /\ At(t, "read")
    /\ tasks' = [tasks EXCEPT ![t].pc = "write", ![t].read = Projection(ops[tasks[t].op].docs)]
    /\ UNCHANGED <<databaseVars, batch, ops, gens, index, alias, faults>>

\* The write, then the commit of the generation's count, which fails if its row is
\* gone and the count changed: the operation stays RUNNING for the next attempt.
WriteDocuments(t) ==
    /\ At(t, "write")
    /\ Write(tasks[t].gen, tasks[t].read)
    /\ \/ tasks' = [tasks EXCEPT ![t].pc = "complete", ![t].read = EmptyIndex]
       \/ gens[tasks[t].gen].status = "NONE" /\ tasks' = [tasks EXCEPT ![t] = FailedTask(t)]
    /\ UNCHANGED <<databaseVars, batch, ops, gens, alias, faults>>

Complete(t) ==
    /\ At(t, "complete")
    /\ SetOperation(t, "COMPLETED")
    /\ Finish(t)
    /\ UNCHANGED <<databaseVars, batch, gens, index, alias, faults>>

\* The members of a batch that an index holds, and the index with the batch's id added
\* to them.
HeldMembers(n, b) == {d \in MembersOf(b) : Exists(n) /\ index[n][d] # Absent}
Joined(n, b) ==
    [d \in MatterDocs |-> IF d \in HeldMembers(n, b) THEN [index[n][d] EXCEPT !.batches = @ \cup {b}]
                          ELSE index[n][d]]

\* A batch takes the lock again and adds its id to its documents in the index; one
\* that the index does not hold fails the batch.
UpdateMembers(t) ==
    LET n == tasks[t].gen
        b == tasks[t].batch
    IN  /\ At(t, "relock") /\ LockFree
        /\ index' = IF Exists(n) THEN [index EXCEPT ![n] = Joined(n, b)] ELSE index
        /\ IF HeldMembers(n, b) = MembersOf(b) THEN Goto(t, "synced") /\ UNCHANGED <<batch, ops>> ELSE Fail(t)
        /\ UNCHANGED <<databaseVars, gens, alias, faults>>

CommitSynced(t) ==
    /\ At(t, "synced")
    /\ batch' = [batch EXCEPT ![tasks[t].batch].search = "READY", ![tasks[t].batch].build = "done"]
    /\ Finish(t)
    /\ UNCHANGED <<databaseVars, ops, gens, index, alias, faults>>

\* The index service fails a call.
ServiceFails(t) ==
    /\ faults < MaxFaults /\ faults' = faults + 1
    /\ \/ /\ tasks[t].pc \in {"ensure", "read", "write", "relock"}
          /\ Fail(t)
          /\ UNCHANGED gens
       \/ /\ tasks[t].pc \in {"fill", "switch"}
          /\ FailBuild(t)
    /\ UNCHANGED <<databaseVars, index, alias>>

\* The worker dies: its transaction is lost, recovery executes the step again.
Crash(t) ==
    /\ faults < MaxFaults /\ faults' = faults + 1
    /\ tasks[t].pc \notin Ended \cup {"queued", "begin"}
    /\ tasks' = [tasks EXCEPT ![t] = [NewTask(tasks[t].op, tasks[t].batch) EXCEPT
                                        !.pc = "begin", !.attempts = tasks[t].attempts]]
    /\ UNCHANGED <<databaseVars, batch, ops, gens, index, alias>>

TaskStep(t) ==
    \/ Begin(t) \/ Ensure(t)
    \/ Fill(t) \/ SwitchAlias(t) \/ Activate(t)
    \/ ListObsolete(t) \/ Tidy(t)
    \/ ReadDocuments(t) \/ WriteDocuments(t) \/ Complete(t)
    \/ UpdateMembers(t) \/ CommitSynced(t)

ProjectionNext ==
    \/ \E d \in MatterDocs : ChangeDocument(d)
    \/ \E s \in WantedSchemas : ChangeSchema(s)
    \/ RebuildIndex \/ RetryFailed \/ CleanupScript
    \/ \E o \in DOMAIN ops : ConfirmReindex(o)
    \/ \E b \in Batches : ProjectBatch(b)
    \/ \E t \in TaskIds : TaskStep(t) \/ TidyFails(t) \/ ServiceFails(t) \/ Crash(t)

\* The queue starts its workflows, runs their steps and recovers them.
ProjectionFairness ==
    \A t \in 1..MaxTasks : WF_projectionVars(t \in TaskIds /\ TaskStep(t))

ProjectionSpec == ProjectionInit /\ [][ProjectionNext]_projectionVars /\ ProjectionFairness

\* The cleanup after a commit holds no lock.  In turn: an index is built only when no
\* such cleanup is under way, one is extended only when the alias names it, and a
\* rebuild is confirmed only when the workflows of its operation have ended.
InTurn ==
    /\ \A t \in TaskIds : At(t, "ensure") =>
          /\ tasks'[t].pc = "fill" => \A u \in TaskIds : tasks[u].pc \notin {"list", "tidy"}
          /\ tasks'[t].pc = "list" => alias = {tasks'[t].gen}
    /\ \A o \in DOMAIN ops : (ops[o].status = "AWAITING_USER" /\ ops'[o].status = "QUEUED") =>
          \A t \in TaskIds : tasks[t].op = o => tasks[t].pc \in Ended

OrderlyProjection == ProjectionInit /\ [][ProjectionNext /\ InTurn]_projectionVars

(***************************************************************************)
(* Properties.                                                             *)
(***************************************************************************)
\* The rows have values that their columns hold; a matter has one active generation at most.
ProjectionTypeOK ==
    /\ BuildTypeOK
    /\ \A o \in DOMAIN ops : ops[o].kind \in OperationKinds /\ ops[o].status \in OperationStatus
    /\ \A n \in Generations : gens[n].status \in GenerationStatus
    /\ alias \subseteq Generations
    /\ Cardinality(Active) <= 1

\* Once there is a searchable index, the alias always names exactly one index and
\* that index exists: rebuilds, crashes and cleanups never interrupt search
\* (docs/search-index-lifecycle.md: "while the current alias remains searchable").
SearchNeverInterrupted ==
    /\ Active # {} => alias # {}
    /\ Cardinality(alias) <= 1
    /\ \A n \in alias : Exists(n)

Settled == \A t \in TaskIds : tasks[t].pc = "done"

\* When all workflows are done, the active index is the one behind the alias, and
\* each document with a completed upsert is in it, in a state no older than the
\* one that one of its operations was created for.
SettledIsSearchable ==
    Settled => \A d \in MatterDocs :
        LET upserts == {o \in DOMAIN ops : d \in ops[o].docs}
        IN  (\E o \in upserts : ops[o].status = "COMPLETED") =>
                \E n \in Active : /\ alias = {n} /\ Exists(n)
                                  /\ \E o \in upserts : index[n][d].version >= ops[o].since[d]

\* docs/search-index-lifecycle.md: "Every schema or document projection takes the
\* PostgreSQL advisory transaction lock for that matter, so alias changes, mapping
\* updates, and document writes cannot race": when all is done, what is indexed is
\* what was committed.  The code does not keep this.
SettledIsCurrent ==
    (Settled /\ \A o \in DOMAIN ops : ops[o].status = "COMPLETED") =>
        \A n \in Active, d \in MatterDocs :
            (\E o \in DOMAIN ops : d \in ops[o].docs) => index[n][d].version = version[d]

\* Every operation that is queued ends, or waits for a user.
EveryOperationSettles ==
    \A o \in 1..MaxOperations :
        (o \in DOMAIN ops /\ ops[o].status = "QUEUED")
            ~> (o \in DOMAIN ops /\ ops[o].status \in {"COMPLETED", "FAILED", "AWAITING_USER"})
=============================================================================

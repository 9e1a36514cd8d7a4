------------------------------ MODULE ImportClient ------------------------------
(***************************************************************************)
(* The import client (scripts/import_client): a tool that uploads the      *)
(* items of a dataset into a collection with several threads, and that is  *)
(* run again after a failure.  importer.py makes batches of the items,     *)
(* hands them to the threads and collects their results; api.py sends the  *)
(* requests and signs in again when the access token has expired.          *)
(*                                                                         *)
(* The server is what its two commands do: create_custodian of             *)
(* app/routers/clients.py (one custodian stands for all) and the upload of *)
(* an item, which returns the item that has the same source_item_id        *)
(* (artifact_service/api.py).                                              *)
(***************************************************************************)
EXTENDS Naturals, Sequences, FiniteSets, SequencesExt

CONSTANTS
    SourceItems,   \* the preprocessed items, in order: [id, family, parent]
    NoParent,      \* the parent of an item that is not an attachment
    Threads,       \* the threads of the executor
    NoThread,      \* nobody holds a lock
    MaxToolRuns,   \* bound on the executions of the tool
    MaxExpiries,   \* bound on how often the token expires
    MaxLost        \* bound on requests that fail or whose answer is lost

ASSUME ClientAssumption ==
    /\ \A n \in DOMAIN SourceItems : DOMAIN SourceItems[n] = {"id", "family", "parent"}
    /\ NoThread \notin Threads
    /\ {MaxToolRuns, MaxExpiries, MaxLost} \subseteq Nat

VARIABLES
    stored,      \* server: the items of the collection
    custodian,   \* server: whether the custodian exists
    expired,     \* server: whether the token that was issued last has expired
    token,       \* the Authorization header, as the number of the sign-in
    tool,        \* the main thread
    known,       \* _custodians has the custodian
    lock,        \* _custodian_lock, _reauthentication_lock
    uploaded,    \* uploaded_items
    threads,     \* the pool's threads
    spent        \* the bounds that are used up

clientVars ==
    <<stored, custodian, expired, token, tool, known, lock, uploaded, threads, spent>>
serverVars == <<stored, custodian, expired, token, spent>>

ItemIds == {SourceItems[n].id : n \in DOMAIN SourceItems}

\* Mutant: an item without the family of its parent starts a batch of its own.
MutantBelongsTo(item, batch) == batch # <<>> /\ item.family = Last(batch).family

\* An item goes with the one before it if they have one family, or if its parent is in
\* the batch.
BelongsTo(item, batch) ==
    batch # <<>> /\ \/ item.family = Last(batch).family
                    \/ \E n \in DOMAIN batch : batch[n].id = item.parent

\* _item_batches: keep a parent and its contiguous family children on one worker.
UploadBatches ==
    FoldLeft(LAMBDA batches, item :
                 IF batches # <<>> /\ BelongsTo(item, Last(batches))
                 THEN [batches EXCEPT ![Len(batches)] = Append(@, item)]
                 ELSE Append(batches, <<item>>),
             <<>>, SourceItems)

Outcomes == {"created", "existing", "failed"}
NoReport == [o \in Outcomes |-> {}]
IdleThread == [pc |-> "idle", batch |-> 0, at |-> 0, token |-> 0, results |-> NoReport]
IdleTool == [phase |-> "ready", submitted |-> 0, queue |-> <<>>, pending |-> {}, raised |-> {},
             results |-> <<>>, report |-> NoReport, continue |-> FALSE]

ClientInit ==
    /\ stored = {} /\ custodian = FALSE /\ expired = FALSE /\ token = 1
    /\ tool = IdleTool /\ known = FALSE /\ uploaded = {}
    /\ lock = [custodian |-> NoThread, login |-> NoThread]
    /\ threads = [t \in Threads |-> IdleThread]
    /\ spent = [runs |-> 0, expiries |-> 0, logins |-> 0, lost |-> 0]

Item(t) == UploadBatches[threads[t].batch][threads[t].at]

-----------------------------------------------------------------------------
\* run: the collection is found and its custodians are listed.  A run that was ended by an
\* error has waited for what its executor had queued.
StartTool(continue) ==
    /\ tool.phase \in {"ready", "done", "aborted"}
    /\ tool.queue = <<>>
    /\ \A t \in Threads : threads[t].pc = "idle"
    /\ spent.runs < MaxToolRuns
    /\ tool' = [IdleTool EXCEPT !.phase = "running", !.continue = continue,
                                !.results = [b \in DOMAIN UploadBatches |-> NoReport]]
    /\ known' = custodian
    /\ uploaded' = {}
    /\ spent' = [spent EXCEPT !.runs = @ + 1]
    /\ UNCHANGED <<stored, custodian, expired, token, lock, threads>>

QueueLimit == 2 * Cardinality(Threads)

\* The next batch is submitted; when the queue is full a result is collected first.
Submit ==
    /\ tool.phase = "running"
    /\ tool.submitted < Len(UploadBatches)
    /\ Cardinality(tool.pending) < QueueLimit
    /\ LET b == tool.submitted + 1 IN
       tool' = [tool EXCEPT !.submitted = b, !.queue = Append(@, b), !.pending = @ \union {b}]
    /\ UNCHANGED <<serverVars, known, lock, uploaded, threads>>

\* A batch that is neither queued nor on a thread is done.
Done(b) ==
    /\ b \notin ToSet(tool.queue)
    /\ \A t \in Threads : threads[t].pc = "idle" \/ threads[t].batch # b

\* The results of a batch are added to the report; one that raised ends the run, although
\* the executor still executes what is queued.
Collect(b) ==
    /\ tool.phase = "running"
    /\ Cardinality(tool.pending) = QueueLimit \/ tool.submitted = Len(UploadBatches)
    /\ b \in tool.pending /\ Done(b)
    /\ tool' = IF b \in tool.raised THEN [tool EXCEPT !.phase = "aborted"]
               ELSE [tool EXCEPT !.pending = @ \ {b},
                                 !.report = [o \in Outcomes |-> @[o] \union tool.results[b][o]]]
    /\ UNCHANGED <<serverVars, known, lock, uploaded, threads>>

EndTool ==
    /\ tool.phase = "running"
    /\ tool.submitted = Len(UploadBatches) /\ tool.pending = {}
    /\ tool' = [tool EXCEPT !.phase = "done"]
    /\ UNCHANGED <<serverVars, known, lock, uploaded, threads>>

-----------------------------------------------------------------------------
Take(t) ==
    /\ threads[t].pc = "idle"
    /\ tool.queue # <<>>
    /\ threads' = [threads EXCEPT ![t] = [IdleThread EXCEPT !.pc = "custodian",
                                                            !.batch = Head(tool.queue), !.at = 1]]
    /\ tool' = [tool EXCEPT !.queue = Tail(@)]
    /\ UNCHANGED <<serverVars, known, lock, uploaded>>

\* The thread goes on with the next item of its batch, or hands over the results.
NextItem(t, outcome) ==
    LET results == [threads[t].results EXCEPT ![outcome] = @ \union {Item(t).id}]
        last == threads[t].at = Len(UploadBatches[threads[t].batch])
    IN  /\ threads' = [threads EXCEPT ![t] = IF last THEN IdleThread ELSE
                          [@ EXCEPT !.pc = "custodian", !.at = @ + 1, !.results = results]]
        /\ tool' = IF last THEN [tool EXCEPT !.results[threads[t].batch] = results] ELSE tool

\* _upload_batch: a failure of an item is recorded, or it ends the batch.
ItemFails(t) ==
    IF tool.continue THEN NextItem(t, "failed")
    ELSE /\ threads' = [threads EXCEPT ![t] = IdleThread]
         /\ tool' = [tool EXCEPT !.raised = @ \union {threads[t].batch}]

\* _resolve_custodian: the lock is held while the custodian is created.
ResolveCustodian(t) ==
    /\ threads[t].pc = "custodian"
    /\ lock.custodian = NoThread
    /\ IF known THEN /\ threads' = [threads EXCEPT ![t].pc = "parent"]
                     /\ UNCHANGED lock
       ELSE /\ threads' = [threads EXCEPT ![t].pc = "create", ![t].token = token]
            /\ lock' = [lock EXCEPT !.custodian = t]
    /\ UNCHANGED <<serverVars, tool, known, uploaded>>

\* The parent must have been uploaded in this run.
FindParent(t) ==
    /\ threads[t].pc = "parent"
    /\ IF Item(t).parent \in uploaded \union {NoParent}
       THEN /\ threads' = [threads EXCEPT ![t].pc = "upload", ![t].token = token]
            /\ UNCHANGED tool
       ELSE ItemFails(t)
    /\ UNCHANGED <<serverVars, known, lock, uploaded>>

PendingRequests == {"create", "create-again", "upload", "upload-again"}
Creating(t) == threads[t].pc \in {"create", "create-again", "create-login"}
Again(t) == IF Creating(t) THEN "create-again" ELSE "upload-again"
Accepted(t) == ~expired /\ threads[t].token = token

\* The item fails, and the custodian's lock is left.
RequestFails(t) ==
    /\ ItemFails(t)
    /\ lock' = [custodian |-> IF lock.custodian = t THEN NoThread ELSE lock.custodian,
                login |-> IF lock.login = t THEN NoThread ELSE lock.login]

\* create_custodian: a second custodian of the name is a conflict.
SendCreate(t) ==
    /\ threads[t].pc \in {"create", "create-again"}
    /\ Accepted(t)
    /\ custodian' = TRUE
    /\ IF custodian THEN RequestFails(t) /\ UNCHANGED known
       ELSE /\ known' = TRUE
            /\ threads' = [threads EXCEPT ![t].pc = "parent"]
            /\ lock' = [lock EXCEPT !.custodian = NoThread]
            /\ UNCHANGED tool
    /\ UNCHANGED <<stored, expired, token, uploaded, spent>>

SendUpload(t) ==
    /\ threads[t].pc \in {"upload", "upload-again"}
    /\ Accepted(t)
    /\ stored' = stored \union {Item(t).id}
    /\ uploaded' = uploaded \union {Item(t).id}
    /\ NextItem(t, IF Item(t).id \in stored THEN "existing" ELSE "created")
    /\ UNCHANGED <<custodian, expired, token, known, lock, spent>>

\* The request fails, or it is carried out and its answer is lost.
LoseRequest(t) ==
    /\ threads[t].pc \in PendingRequests
    /\ Accepted(t)
    /\ spent.lost < MaxLost /\ spent' = [spent EXCEPT !.lost = @ + 1]
    /\ \/ UNCHANGED <<stored, custodian>>
       \/ Creating(t) /\ custodian' = TRUE /\ UNCHANGED stored
       \/ ~Creating(t) /\ stored' = stored \union {Item(t).id} /\ UNCHANGED custodian
    /\ RequestFails(t)
    /\ UNCHANGED <<expired, token, known, uploaded>>

\* 401: the first time the thread waits for the lock to sign in again.
Unauthorized(t) ==
    /\ threads[t].pc \in PendingRequests
    /\ ~Accepted(t)
    /\ \/ /\ threads[t].pc \in {"create", "upload"}
          /\ threads' = [threads EXCEPT ![t].pc = IF Creating(t) THEN "create-login" ELSE "upload-login"]
          /\ UNCHANGED <<tool, lock>>
       \/ threads[t].pc \in {"create-again", "upload-again"} /\ RequestFails(t)
    /\ UNCHANGED <<serverVars, known, uploaded>>

\* The first thread that was refused with the token signs in.
MustLogin(t) == token = threads[t].token

LoginAgain(t) ==
    /\ threads[t].pc \in {"create-login", "upload-login"}
    /\ lock.login = NoThread
    /\ IF MustLogin(t) THEN lock' = [lock EXCEPT !.login = t] /\ UNCHANGED threads
       ELSE /\ threads' = [threads EXCEPT ![t].pc = Again(t), ![t].token = token]
            /\ UNCHANGED lock
    /\ UNCHANGED <<serverVars, tool, known, uploaded>>

\* The new token is in the header before the lock is left.
SignedIn(t) ==
    /\ lock.login = t
    /\ token' = token + 1 /\ expired' = FALSE
    /\ lock' = [lock EXCEPT !.login = NoThread]
    /\ threads' = [threads EXCEPT ![t].pc = Again(t), ![t].token = token + 1]
    /\ spent' = [spent EXCEPT !.logins = @ + 1]
    /\ UNCHANGED <<stored, custodian, tool, known, uploaded>>

Expire ==
    /\ ~expired /\ spent.expiries < MaxExpiries
    /\ expired' = TRUE
    /\ spent' = [spent EXCEPT !.expiries = @ + 1]
    /\ UNCHANGED <<stored, custodian, token, tool, known, lock, uploaded, threads>>

ClientNext ==
    \/ Submit \/ EndTool \/ Expire
    \/ \E continue \in BOOLEAN : StartTool(continue)
    \/ \E b \in DOMAIN UploadBatches : Collect(b)
    \/ \E t \in Threads : \/ Take(t) \/ ResolveCustodian(t) \/ FindParent(t) \/ SendCreate(t)
                          \/ SendUpload(t) \/ LoseRequest(t) \/ Unauthorized(t)
                          \/ LoginAgain(t) \/ SignedIn(t)

ClientSpec == ClientInit /\ [][ClientNext]_clientVars

-----------------------------------------------------------------------------
(***************************************************************************)
(* Properties.                                                             *)
(***************************************************************************)
ClientTypeOK ==
    /\ stored \subseteq ItemIds /\ uploaded \subseteq stored
    /\ custodian \in BOOLEAN /\ expired \in BOOLEAN /\ known \in BOOLEAN
    /\ tool.phase \in {"ready", "running", "done", "aborted"}
    /\ \A o \in Outcomes : tool.report[o] \subseteq ItemIds
    /\ \A t \in Threads : threads[t].pc \in PendingRequests \union
           {"idle", "custodian", "parent", "create-login", "upload-login"}

\* The report of a run that ends counts each item of the dataset once, what it counts as
\* created or existing is in the collection, and an item is refused for its parent only if
\* the parent failed: without failures a run has imported everything.  However many threads
\* are refused with an expired token, one of them signs in again.
ReportIsExact ==
    /\ spent.logins <= spent.expiries
    /\ tool.phase = "done" =>
          /\ UNION {tool.report[o] : o \in Outcomes} = ItemIds
          /\ \A o, p \in Outcomes : o # p => tool.report[o] \intersect tool.report[p] = {}
          /\ tool.report["created"] \union tool.report["existing"] \subseteq stored
          /\ spent.lost = 0 => tool.report["failed"] = {} \/ spent.expiries > 1
=============================================================================

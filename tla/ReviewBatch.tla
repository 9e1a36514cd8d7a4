------------------------------ MODULE ReviewBatch ------------------------------
(***************************************************************************)
(* Coding passes over review batches (app/routers/review_batches.py).      *)
(*                                                                         *)
(* A user opens a batch for review: the run of that user is resumed, or a  *)
(* completed one returned, or a new one created, under the lock of the     *)
(* batch's row.  Runs may also be created directly.  A run holds the       *)
(* progress of its documents and the values coded for them; a save or a    *)
(* skip marks one document, counts the marked ones and completes the run   *)
(* when the count reaches the size of the batch.  Requests run in          *)
(* transactions that see what others have committed: each is split into    *)
(* the read of the run, the writes that take row locks together with the   *)
(* count, and the commit.                                                  *)
(***************************************************************************)
EXTENDS ReviewBatchBuild

CONSTANTS
    Requests,     \* the requests that may be in flight at a time
    CodedValues,  \* what a document may be coded with
    NoValue,      \* a document without a value
    Purposes,     \* the purposes of runs that requests create directly
    MaxMarks      \* bound on the documents of all runs together

ASSUME ReviewAssumption == MaxMarks \in Nat /\ NoValue \notin CodedValues

VARIABLES
    runs,      \* the runs in the order of their creation
    requests   \* requests[q]: the request in slot q, between its steps

reviewVars == <<documents, batch, runs, requests>>

DocumentStatus == {"NOT_STARTED", "COMPLETED", "SKIPPED"}
Processed == {"COMPLETED", "SKIPPED"}
RunIds == DOMAIN runs

\* A run that was not created by a review has no progress yet; how it began and
\* ended is recorded for the properties.
NewRun(b, type, user, purpose, opened) ==
    [batch |-> b, type |-> type, user |-> user, purpose |-> purpose, status |-> "RUNNING",
     count |-> 0, opened |-> opened, closed |-> FALSE,
     progress |-> [d \in MatterDocs |-> "NOT_STARTED"], values |-> [d \in MatterDocs |-> NoValue]]

IdleReview == [pc |-> "idle"]

ReviewInit ==
    /\ BuildInit
    /\ runs = <<>>
    /\ requests = [q \in Requests |-> IdleReview]

Answer(q) == requests' = [requests EXCEPT ![q] = IdleReview]

\* Only the assigned user, or anyone if there is none, starts a human run.
MayReview(b, user) == batch[b].assigned \in {Nobody, user}

\* The newest running review of a user, its completed one, or none (0).
ReviewRuns(b, user, status) ==
    {r \in RunIds : /\ runs[r].batch = b /\ runs[r].type = "HUMAN" /\ runs[r].purpose = "REVIEW"
                    /\ runs[r].user = user /\ runs[r].status = status}

\* A start that does not lock the batch.
MutantBatchLocked(b) == FALSE

\* The batch row is locked until the request that starts a review commits.
BatchLocked(b) == \E q \in Requests : requests[q].pc = "opening" /\ requests[q].batch = b

RoomFor(b) == (Len(runs) + 1) * batch[b].count <= MaxMarks

\* start_or_resume takes the lock and looks for the user's runs.
OpenReview(q, b, user) ==
    /\ requests[q].pc = "idle"
    /\ IsReady(b) /\ ~BatchLocked(b) /\ MayReview(b, user)
    /\ requests' = [requests EXCEPT ![q] =
            [pc |-> "opening", batch |-> b, user |-> user,
             found |-> ReviewRuns(b, user, "RUNNING") \cup ReviewRuns(b, user, "COMPLETED") # {}]]
    /\ UNCHANGED <<documents, batch, runs>>

\* It commits the assignment and, if it found no run, a new one.
CommitReview(q) ==
    LET b == requests[q].batch
        user == requests[q].user
    IN  /\ requests[q].pc = "opening"
        /\ requests[q].found \/ RoomFor(b)
        /\ runs' = IF requests[q].found THEN runs
                   ELSE Append(runs, NewRun(b, "HUMAN", user, "REVIEW", TRUE))
        /\ batch' = [batch EXCEPT ![b].assigned = IF @ = Nobody THEN user ELSE @]
        /\ Answer(q)
        /\ UNCHANGED documents

\* A user assigns the batch to someone or to nobody, which waits for a start that
\* holds the row.
UpdateAssignment(b, user) ==
    /\ batch[b].status # "NONE"
    /\ ~BatchLocked(b)
    /\ batch' = [batch EXCEPT ![b].assigned = user]
    /\ UNCHANGED <<documents, runs, requests>>

\* A run created directly: of the user or of an agent, without the lock.
CreateRun(b, type, user, purpose) ==
    /\ RoomFor(b)
    /\ IsReady(b)
    /\ type = "HUMAN" => MayReview(b, user)
    /\ runs' = Append(runs, NewRun(b, type, IF type = "HUMAN" THEN user ELSE Nobody, purpose, FALSE))
    /\ UNCHANGED <<documents, batch, requests>>

\* Only the reviewer works in a human run; a run of an agent is open to every user.
MayCode(r, user) == runs[r].type = "HUMAN" => runs[r].user = user

\* A save (mark COMPLETED) or a skip (mark SKIPPED) reads the run.
BeginCoding(q, r, user, d, mark, value) ==
    /\ requests[q].pc = "idle"
    /\ runs[r].status = "RUNNING" /\ MayCode(r, user)
    /\ d \in MembersOf(runs[r].batch)
    /\ mark = "SKIPPED" => value = NoValue
    /\ requests' = [requests EXCEPT ![q] =
            [pc |-> "coding", run |-> r, doc |-> d, mark |-> mark, value |-> value,
             fresh |-> runs[r].progress[d] = "NOT_STARTED", old |-> runs[r].values[d],
             seen |-> runs[r].count, count |-> 0, keeps |-> mark = "SKIPPED"]]
    /\ UNCHANGED <<documents, batch, runs>>

\* Another request has written the row of this document and not committed.
RowLocked(q) ==
    \E p \in Requests \ {q} : /\ requests[p].pc = "coded"
                              /\ requests[p].run = requests[q].run /\ requests[p].doc = requests[q].doc

\* A count that is one higher for every save.
MutantCountProcessed(r, d) == runs[r].count + 1

\* What a statement of this transaction counts: the committed marks and its own.
CountProcessed(r, d) ==
    Cardinality({e \in MatterDocs : e = d \/ runs[r].progress[e] \in Processed})

\* A row that was read as missing and exists by now violates the primary key.
RowConflict(q) ==
    requests[q].fresh /\ runs[requests[q].run].progress[requests[q].doc] # "NOT_STARTED"

\* The values of the document changed since they were read: whether this request
\* deletes the new ones depends on when its DELETE was executed.
ValuesChanged(q) ==
    /\ requests[q].mark = "COMPLETED"
    /\ runs[requests[q].run].values[requests[q].doc] \notin {requests[q].old, NoValue}

\* The row is written and the marked documents are counted; or the request fails
\* on a key; or it deletes nothing of what another one wrote and has nothing to add.
WriteCoding(q) ==
    LET written == [requests[q] EXCEPT !.pc = "coded",
                                       !.count = CountProcessed(requests[q].run, requests[q].doc)]
    IN  /\ requests[q].pc = "coding"
        /\ ~RowLocked(q)
        /\ \/ ~RowConflict(q) /\ requests' = [requests EXCEPT ![q] = written]
           \/ /\ RowConflict(q) \/ (ValuesChanged(q) /\ requests[q].value # NoValue)
              /\ Answer(q)
           \/ ~RowConflict(q) /\ ValuesChanged(q) /\ requests[q].value = NoValue
              /\ requests' = [requests EXCEPT ![q] = [written EXCEPT !.keeps = TRUE]]
        /\ UNCHANGED <<documents, batch, runs>>

\* The commit writes only what differs from what was read: the count, and the
\* status when the batch is done.
CommitCoding(q) ==
    LET r == requests[q].run
        d == requests[q].doc
        n == requests[q].count
    IN  /\ requests[q].pc = "coded"
        /\ runs' = [runs EXCEPT ![r].progress[d] = requests[q].mark,
                                ![r].values[d] = IF requests[q].keeps THEN @ ELSE requests[q].value,
                                ![r].count = IF n = requests[q].seen THEN @ ELSE n,
                                ![r].status = IF n >= batch[runs[r].batch].count THEN "COMPLETED" ELSE @]
        /\ Answer(q)
        /\ UNCHANGED <<documents, batch>>

\* What the progress of a run shows as not started.
NotStarted(r) ==
    batch[runs[r].batch].count - Cardinality({d \in MatterDocs : runs[r].progress[d] \in Processed})

\* The reviewer ends the run, whatever is marked; an agent's run anyone ends.
CompleteRun(r, user) ==
    /\ MayCode(r, user)
    /\ runs[r].status = "RUNNING"
    /\ runs' = [runs EXCEPT ![r].status = "COMPLETED", ![r].closed = TRUE]
    /\ UNCHANGED <<documents, batch, requests>>

CodingNext ==
    \/ \E q \in Requests, b \in Batches, user \in Reviewers : OpenReview(q, b, user)
    \/ \E b \in Batches, user \in Reviewers, type \in {"HUMAN", "AGENT"}, purpose \in Purposes :
            CreateRun(b, type, user, purpose)
    \/ \E q \in Requests, r \in RunIds, user \in Reviewers, d \in MatterDocs, value \in CodedValues \cup {NoValue},
          mark \in Processed : BeginCoding(q, r, user, d, mark, value)
    \/ \E b \in Batches, user \in Reviewers \cup {Nobody} : UpdateAssignment(b, user)
    \/ \E q \in Requests : CommitReview(q) \/ WriteCoding(q) \/ CommitCoding(q)
    \/ \E r \in RunIds, user \in Reviewers : CompleteRun(r, user)

ReviewNext ==
    \/ BuildNext /\ UNCHANGED <<runs, requests>>
    \/ CodingNext

(***************************************************************************)
(* Properties.                                                             *)
(***************************************************************************)
ReviewTypeOK ==
    /\ BuildTypeOK
    /\ \A r \in RunIds : /\ runs[r].batch \in Batches /\ runs[r].user \in Reviewers \cup {Nobody}
                         /\ runs[r].status \in {"RUNNING", "COMPLETED"}
                         /\ runs[r].progress \in [MatterDocs -> DocumentStatus]
                         /\ runs[r].values \in [MatterDocs -> CodedValues \cup {NoValue}]
    /\ \A q \in Requests : requests[q].pc \in {"idle", "opening", "coding", "coded"}

\* However many requests open a batch at the same time, each user gets one review
\* of it (docs/review-batches.md: "an atomic start-or-resume operation").
OneReviewPerReviewer ==
    \A r, s \in RunIds :
        runs[r].opened /\ runs[s].opened /\ runs[r].batch = runs[s].batch /\ runs[r].user = runs[s].user
            => r = s

\* A run completes by itself only when each document of its batch is saved or
\* skipped; its count never runs ahead of its marks.
CompletionIsEarned ==
    \A r \in RunIds :
        LET marked == {d \in MatterDocs : runs[r].progress[d] \in Processed}
        IN  /\ runs[r].count <= Cardinality(marked)
            /\ runs[r].status = "COMPLETED" /\ ~runs[r].closed =>
                  MembersOf(runs[r].batch) \subseteq marked /\ NotStarted(r) = 0

ReviewSpec == ReviewInit /\ [][ReviewNext]_reviewVars
=============================================================================

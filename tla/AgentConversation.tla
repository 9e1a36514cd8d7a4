--------------------------- MODULE AgentConversation ---------------------------
(***************************************************************************)
(* A conversation between the users of a matter and its agent.  A message  *)
(* of a user begins a turn; a workflow runs the agent, whose state changes *)
(* need the approval of a user.  A run that asks for approvals ends there, *)
(* and the last decision queues another run, which resumes it.             *)
(*                                                                         *)
(* The tools that only read are left out: nothing depends on them.  So are *)
(* the rows that log the executions of tools, which nothing reads.         *)
(***************************************************************************)
EXTENDS Naturals, Sequences, FiniteSets

CONSTANTS
    MaxTurns,           \* bound on the turns of the conversation
    MaxRounds,          \* bounds on the runs of each turn
    Calls,              \* the tool calls that one answer of the model can ask to approve
    AgentFaultKinds,    \* the faults that may happen
    MaxAgentFaults,     \* bound on their number
    NoRun, NoCall

ASSUME AgentAssumption ==
    /\ MaxTurns \in Nat \ {0}
    /\ MaxRounds \in [1..MaxTurns -> Nat \ {0}]
    /\ MaxAgentFaults \in Nat
    /\ NoCall \notin Calls
    /\ NoRun \notin (1..MaxTurns) \X (Nat \ {0})

Turns == 1..MaxTurns
\* AgentRun, by turn and sequence.
Runs == UNION {{t} \X (1..MaxRounds[t]) : t \in Turns}

VARIABLES
    conversation,   \* AgentConversation.status
    turn,           \* AgentTurn.status, by sequence
    run,            \* AgentRun rows: status, parent, whether message_history is written
    created,        \* the runs in the order of created_at
    action,         \* AgentActionRequest rows of a run with their AgentActionDecision
    messages,       \* AgentMessage rows in the order of sequence
    effects,        \* how often the operation behind an action has been committed
    wf,             \* the agent_turn workflow of each run
    agentFaults

agentVars == <<conversation, turn, run, created, action, messages, effects, wf, agentFaults>>

ConversationStatus == {"ACTIVE", "WAITING_APPROVAL", "COMPLETED", "FAILED"}
RunStatus == {"NONE", "QUEUED", "RUNNING", "WAITING_APPROVAL", "COMPLETED", "FAILED"}
ActionStatus == {"NONE", "PENDING", "APPROVED", "REJECTED", "EXECUTED"}
AgentPC == {"none", "prepare", "prepare_commit", "execute", "tool",
            "persist", "persist_commit", "done", "fail", "fail_commit", "failed"}

NoAction == [status |-> "NONE", decision |-> "NONE"]
NothingSeen == [turn |-> "NONE", conversation |-> "ACTIVE", last |-> 0]
\* seen: what the session has read; ran: the tools that ran, last the one just before;
\* asks: the approvals that the answer asks for.
NewWorkflow(pc) == [pc |-> pc, seen |-> NothingSeen, ran |-> {}, last |-> NoCall, asks |-> {}]

AgentInit ==
    /\ conversation = "ACTIVE"
    /\ turn = [t \in Turns |-> "NONE"]
    /\ run = [r \in Runs |-> [status |-> "NONE", parent |-> NoRun, history |-> FALSE]]
    /\ created = <<>>
    /\ action = [r \in Runs |-> [c \in Calls |-> NoAction]]
    /\ messages = <<>>
    /\ effects = [r \in Runs |-> [c \in Calls |-> 0]]
    /\ wf = [r \in Runs |-> NewWorkflow("none")]
    /\ agentFaults = 0

Created == {created[k] : k \in DOMAIN created}
Resume(r) == <<r[1], r[2] + 1>>
Deferred(r) == r[2] > 1
Source(r) == <<r[1], r[2] - 1>>     \* deferred_from_run_id

Asked(r) == {c \in Calls : action[r][c].status # "NONE"}
Pending(r) == {c \in Calls : action[r][c].status = "PENDING"}
Approved(r) == IF Deferred(r) THEN {c \in Calls : action[Source(r)][c].decision = "APPROVE"} ELSE {}

\* Inserts a queued run and enqueues its workflow in the same transaction.
Queue(r, parent) ==
    /\ run' = [run EXCEPT ![r] = [status |-> "QUEUED", parent |-> parent, history |-> FALSE]]
    /\ created' = Append(created, r)
    /\ wf' = [wf EXCEPT ![r] = NewWorkflow("prepare")]

-----------------------------------------------------------------------------
(* The API requests.  Each locks the conversation's row for its whole       *)
(* transaction, and the messages that others insert wait for that lock.     *)

\* submit_agent_turn: refused while the conversation is WAITING_APPROVAL, and once it FAILED.
SubmitTurn(t) ==
    LET r == <<t, 1>> IN
    /\ turn[t] = "NONE"
    /\ \A u \in Turns : u < t => turn[u] # "NONE"
    /\ conversation \in {"ACTIVE", "COMPLETED"}
    /\ turn' = [turn EXCEPT ![t] = "QUEUED"]
    /\ messages' = Append(messages, [turn |-> t, role |-> "USER"])
    /\ Queue(r, IF created = <<>> THEN NoRun ELSE created[Len(created)])
    /\ conversation' = "ACTIVE"
    /\ UNCHANGED <<action, effects, agentFaults>>

\* Mutant: the first decision resumes the run.
NonePending(r, c) == {}

\* What is undecided once c is decided.
StillPending(r, c) == Pending(r) \ {c}

Decided(r, c, decision) ==
    action' = [action EXCEPT ![r][c] =
        [status |-> IF decision = "APPROVE" THEN "APPROVED" ELSE "REJECTED",
         decision |-> decision]]

\* decide_action, when another action of the run is undecided.
Decide(r, c, decision) ==
    /\ c \in Pending(r)
    /\ StillPending(r, c) # {} \/ Resume(r) \in Created
    /\ Decided(r, c, decision)
    /\ UNCHANGED <<conversation, turn, run, created, messages, effects, wf, agentFaults>>

\* Mutant: the resumed run is committed, but not enqueued.
DecideLastNotEnqueued(r, c, decision) ==
    /\ c \in Pending(r)
    /\ StillPending(r, c) = {} /\ Resume(r) \notin Created
    /\ Decided(r, c, decision)
    /\ run' = [run EXCEPT ![Resume(r)] = [status |-> "QUEUED", parent |-> r, history |-> FALSE]]
    /\ created' = Append(created, Resume(r))
    /\ turn' = [turn EXCEPT ![r[1]] = "QUEUED"]
    /\ conversation' = "ACTIVE"
    /\ UNCHANGED <<messages, effects, wf, agentFaults>>

\* decide_action, when it is the last: queues the run that resumes this one.
DecideLast(r, c, decision) ==
    /\ c \in Pending(r)
    /\ StillPending(r, c) = {} /\ Resume(r) \notin Created
    /\ Decided(r, c, decision)
    /\ Queue(Resume(r), r)
    /\ turn' = [turn EXCEPT ![r[1]] = "QUEUED"]
    /\ conversation' = "ACTIVE"
    /\ UNCHANGED <<messages, effects, agentFaults>>

-----------------------------------------------------------------------------
(* The workflow.                                                            *)

At(r, pc) == wf[r].pc = pc
\* The session, if there was one, has ended.
Goto(r, pc) == wf' = [wf EXCEPT ![r].pc = pc, ![r].seen = NothingSeen]

\* A session reads its rows and later writes the columns that it changed.
ReadRows(r, pc) ==
    wf' = [wf EXCEPT ![r].pc = pc,
                     ![r].seen = [turn |-> turn[r[1]], conversation |-> conversation,
                                  last |-> Len(messages)]]
Changed(seen, new, current) == IF new = seen THEN current ELSE new
WriteStatus(r, status, turnStatus, conversationStatus) ==
    /\ run' = [run EXCEPT ![r].status = status,
                          ![r].history = @ \/ status \in {"WAITING_APPROVAL", "COMPLETED"}]
    /\ turn' = [turn EXCEPT ![r[1]] = Changed(wf[r].seen.turn, turnStatus, @)]
    /\ conversation' = Changed(wf[r].seen.conversation, conversationStatus, conversation)

\* prepare_agent_run, up to its reads.  Its refusals, of a run that has completed or whose
\* decisions are incomplete, never occur: each run has one workflow, which starts here.
Prepare(r) ==
    /\ At(r, "prepare")
    /\ run[r].status # "COMPLETED"
    /\ Deferred(r) => Pending(Source(r)) = {}
    /\ ReadRows(r, "prepare_commit")
    /\ UNCHANGED <<conversation, turn, run, created, action, messages, effects, agentFaults>>

PrepareCommit(r) ==
    /\ At(r, "prepare_commit")
    /\ WriteStatus(r, "RUNNING", "RUNNING", "ACTIVE")
    /\ Goto(r, "execute")
    /\ UNCHANGED <<created, action, messages, effects, agentFaults>>

\* Mutant: the decision is checked, but not the status of the action.
ValidDecision(r, c) == action[Source(r)][c].decision = "APPROVE"

\* _record_tool asks this in both of its transactions.
ValidApproval(r, c) ==
    /\ action[Source(r)][c].decision = "APPROVE"
    /\ action[Source(r)][c].status = "APPROVED"

\* The first transaction of _record_tool.
Tool(r, c) ==
    /\ At(r, "execute")
    /\ c \in Approved(r) \ wf[r].ran
    /\ wf' = [wf EXCEPT ![r].pc = IF ValidApproval(r, c) THEN "tool" ELSE "fail", ![r].last = c]
    /\ UNCHANGED <<conversation, turn, run, created, action, messages, effects, agentFaults>>

\* Its second one commits the operation and the status of the action together.
ToolCommit(r) ==
    LET c == wf[r].last IN
    /\ At(r, "tool")
    /\ ValidApproval(r, c)
    /\ effects' = [effects EXCEPT ![Source(r)][c] = @ + 1]
    /\ action' = [action EXCEPT ![Source(r)][c].status = "EXECUTED"]
    /\ wf' = [wf EXCEPT ![r].pc = "execute", ![r].ran = @ \cup {c}]
    /\ UNCHANGED <<conversation, turn, run, created, messages, agentFaults>>

\* After the approved calls, the model answers: with a text, or with calls to be approved.
Answer(r, asks) ==
    /\ At(r, "execute")
    /\ Approved(r) \subseteq wf[r].ran
    /\ asks # {} => Resume(r) \in Runs
    /\ wf' = [wf EXCEPT ![r] = [NewWorkflow("persist") EXCEPT !.asks = asks]]
    /\ UNCHANGED <<conversation, turn, run, created, action, messages, effects, agentFaults>>

\* persist_agent_run_outcome, up to its reads.
Persist(r) ==
    /\ At(r, "persist")
    /\ ReadRows(r, "persist_commit")
    /\ UNCHANGED <<conversation, turn, run, created, action, messages, effects, agentFaults>>

PersistAnswer(r) ==
    /\ At(r, "persist_commit")
    /\ wf[r].asks = {}
    /\ messages' = Append(messages, [turn |-> r[1], role |-> "ASSISTANT"])
    /\ WriteStatus(r, "COMPLETED", "COMPLETED", "COMPLETED")
    /\ Goto(r, "done")
    /\ UNCHANGED <<created, action, effects, agentFaults>>

PersistActions(r) ==
    /\ At(r, "persist_commit")
    /\ wf[r].asks # {}
    /\ wf[r].asks \cap Asked(r) = {}
    /\ action' = [action EXCEPT ![r] =
                     [c \in Calls |-> IF c \in wf[r].asks
                                      THEN [NoAction EXCEPT !.status = "PENDING"] ELSE @[c]]]
    /\ WriteStatus(r, "WAITING_APPROVAL", "WAITING_APPROVAL", "WAITING_APPROVAL")
    /\ Goto(r, "done")
    /\ UNCHANGED <<created, messages, effects, agentFaults>>

(***************************************************************************)
(* A unique index rejects the transaction: the action requests are there   *)
(* already, or another message took the sequence number.  The number may   *)
(* be read at any time of the transaction, so that in the second case the  *)
(* commit is also possible.                                                *)
(***************************************************************************)
PersistConflicts(r) ==
    /\ At(r, "persist_commit")
    /\ \/ wf[r].asks \cap Asked(r) # {}
       \/ wf[r].asks = {} /\ Len(messages) > wf[r].seen.last
    /\ Goto(r, "fail")
    /\ UNCHANGED <<conversation, turn, run, created, action, messages, effects, agentFaults>>

\* fail_agent_run: whatever the status of the run, its turn and the conversation is.
Fail(r) ==
    /\ At(r, "fail")
    /\ ReadRows(r, "fail_commit")
    /\ UNCHANGED <<conversation, turn, run, created, action, messages, effects, agentFaults>>

\* Mutant: a failure gives the conversation a status that its column cannot hold.
FailCommitCanceled(r) ==
    /\ At(r, "fail_commit")
    /\ WriteStatus(r, "FAILED", "FAILED", "CANCELED")
    /\ Goto(r, "failed")
    /\ UNCHANGED <<created, action, messages, effects, agentFaults>>

FailCommit(r) ==
    /\ At(r, "fail_commit")
    /\ WriteStatus(r, "FAILED", "FAILED", "FAILED")
    /\ Goto(r, "failed")
    /\ UNCHANGED <<created, action, messages, effects, agentFaults>>

-----------------------------------------------------------------------------
(* Faults of the worker, the model and the tools.                           *)

AgentFault(kind) ==
    /\ kind \in AgentFaultKinds
    /\ agentFaults < MaxAgentFaults
    /\ agentFaults' = agentFaults + 1

\* The worker dies in a transaction: recovery executes the step from its beginning.
AgentRestarts(r) ==
    /\ AgentFault("restart")
    /\ \/ At(r, "prepare_commit") /\ Goto(r, "prepare")
       \/ At(r, "tool") /\ Goto(r, "execute")
       \/ At(r, "persist_commit") /\ Goto(r, "persist")
       \/ At(r, "fail_commit") /\ Goto(r, "fail")
    /\ UNCHANGED <<conversation, turn, run, created, action, messages, effects>>

\* The worker dies between a step's commit and the record of its result.
AgentReplays(r) ==
    /\ AgentFault("replay")
    /\ \/ At(r, "execute") /\ wf[r].last = NoCall /\ Goto(r, "prepare")
       \/ /\ At(r, "execute") /\ wf[r].last \in wf[r].ran
          /\ wf' = [wf EXCEPT ![r].ran = @ \ {wf[r].last}]
       \/ At(r, "done") /\ Goto(r, "persist")
       \/ At(r, "failed") /\ Goto(r, "fail")
    /\ UNCHANGED <<conversation, turn, run, created, action, messages, effects>>

\* The operation behind a tool raises, or the model cannot be reached or exceeds its limits.
AgentRaises(r) ==
    /\ \/ At(r, "tool") /\ AgentFault("tool")
       \/ At(r, "execute") /\ Approved(r) \subseteq wf[r].ran /\ AgentFault("model")
    /\ Goto(r, "fail")
    /\ UNCHANGED <<conversation, turn, run, created, action, messages, effects>>

-----------------------------------------------------------------------------
(* The specification.                                                       *)

AgentStep(r) ==
    \/ Prepare(r) \/ PrepareCommit(r)
    \/ \E c \in Calls : Tool(r, c)
    \/ ToolCommit(r)
    \/ \E asks \in SUBSET Calls : Answer(r, asks)
    \/ Persist(r) \/ PersistAnswer(r) \/ PersistActions(r) \/ PersistConflicts(r)
    \/ Fail(r) \/ FailCommit(r)

UserStep ==
    \/ \E t \in Turns : SubmitTurn(t)
    \/ \E r \in Runs, c \in Calls, decision \in {"APPROVE", "REJECT"} :
          Decide(r, c, decision) \/ DecideLast(r, c, decision)

AgentNext ==
    \/ UserStep
    \/ \E r \in Runs : AgentStep(r) \/ AgentRestarts(r) \/ AgentReplays(r) \/ AgentRaises(r)

AgentFairness == \A r \in Runs : WF_agentVars(AgentStep(r))

AgentSpec == AgentInit /\ [][AgentNext]_agentVars /\ AgentFairness

-----------------------------------------------------------------------------
(* Properties.                                                              *)

\* The rows of conversations, turns, runs and action requests have values their columns hold.
AgentTypeOK ==
    /\ conversation \in ConversationStatus
    /\ turn \in [Turns -> RunStatus]
    /\ run \in [Runs -> [status : RunStatus, parent : Runs \cup {NoRun}, history : BOOLEAN]]
    /\ created \in Seq(Runs)
    /\ action \in [Runs -> [Calls -> [status : ActionStatus,
                                      decision : {"NONE", "APPROVE", "REJECT"}]]]
    /\ messages \in Seq([turn : Turns, role : {"USER", "ASSISTANT"}])
    /\ effects \in [Runs -> [Calls -> Nat]]
    /\ wf \in [Runs -> [pc : AgentPC,
                        seen : [turn : RunStatus, conversation : ConversationStatus, last : Nat],
                        ran : SUBSET Calls, last : Calls \cup {NoCall}, asks : SUBSET Calls]]
    /\ agentFaults \in 0..MaxAgentFaults

(***************************************************************************)
(* "The change is not executed until an authorized user approves it"       *)
(* (agents.mdx): an action takes effect only when it has been approved,    *)
(* and at most once, however often its step is repeated; and a resumed     *)
(* run that has an outcome has done all that users approved.               *)
(***************************************************************************)
EffectsAreApprovedOnce ==
    /\ \A r \in Runs, c \in Calls :
          effects[r][c] > 0 => effects[r][c] = 1 /\ action[r][c].decision = "APPROVE"
    /\ \A r \in Runs : run[r].status \in {"WAITING_APPROVAL", "COMPLETED"} =>
          \A c \in Approved(r) : action[Source(r)][c].status = "EXECUTED"

(***************************************************************************)
(* A run is resumed, and once, when all of its actions are decided: no     *)
(* decision is left without a run that acts on it, and no run acts on a    *)
(* part of the decisions.  A conversation that waits for decisions has one *)
(* that a user can take: it is never locked, whatever runs it has at once. *)
(***************************************************************************)
DecidedIsResumed ==
    /\ \A r \in Runs : Resume(r) \in Created <=> Asked(r) # {} /\ Pending(r) = {}
    /\ \A j, k \in DOMAIN created : created[j] = created[k] => j = k
    /\ conversation = "WAITING_APPROVAL" => \E r \in Runs : Pending(r) # {}

(***************************************************************************)
(* A run that is queued ends: its workflow persists an outcome or a        *)
(* failure, despite restarts of the worker.                                *)
(***************************************************************************)
EveryRunEnds == \A r \in Runs : run[r].status = "QUEUED" ~> wf[r].pc \in {"done", "failed"}
=============================================================================

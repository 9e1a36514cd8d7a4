------------------------ MODULE AgentConversationProofs ------------------------
(***************************************************************************)
(* Theorems about AgentConversation: what users approved takes effect      *)
(* once, decisions are resumed once, and a conversation that waits has a   *)
(* decision to take, for any number of turns, runs, calls and faults.      *)
(***************************************************************************)
EXTENDS AgentConversation, TLAPS

\* Where the workflow of a run is after its answer or a failure.
Outcome == {"persist", "persist_commit", "done", "fail", "fail_commit", "failed"}

\* A run is created once, with its workflow, and its turn has begun.
CreatedInv ==
    /\ \A j, k \in DOMAIN created : created[j] = created[k] => j = k
    /\ \A r \in Runs : /\ wf[r].pc # "none" <=> r \in Created
                       /\ run[r].status # "NONE" => r \in Created
                       /\ r \in Created => turn[r[1]] # "NONE"

\* The actions of a run are what the answer of its workflow asks for, and its last decision
\* creates the run that resumes it.
AskedInv ==
    /\ \A r \in Runs : /\ Asked(r) # {} => wf[r].pc \in Outcome /\ wf[r].asks = Asked(r)
                       /\ wf[r].asks # {} => Resume(r) \in Runs
                       /\ Resume(r) \in Created <=> Asked(r) # {} /\ Pending(r) = {}
    /\ conversation = "WAITING_APPROVAL" => \E r \in Runs : Pending(r) # {}

\* The status of an action goes with its decision and with what it has done.
ActionInv ==
    \A r \in Runs, c \in Calls :
        /\ effects[r][c] = IF action[r][c].status = "EXECUTED" THEN 1 ELSE 0
        /\ action[r][c].decision = "APPROVE" <=> action[r][c].status \in {"APPROVED", "EXECUTED"}

\* A workflow runs the tools of its source; what has run is executed, and so is all that was
\* approved once the model has answered.
ToolInv ==
    \A r \in Runs :
        /\ wf[r].pc = "tool" => Deferred(r) /\ wf[r].last \in Calls
        /\ \A c \in wf[r].ran : Deferred(r) /\ action[Source(r)][c].status = "EXECUTED"
        /\ wf[r].pc \in {"persist", "persist_commit", "done"}
              \/ run[r].status \in {"WAITING_APPROVAL", "COMPLETED"} =>
            \A c \in Approved(r) : action[Source(r)][c].status = "EXECUTED"

\* The inductive invariant: every part above.
AgentInv == AgentTypeOK /\ CreatedInv /\ AskedInv /\ ActionInv /\ ToolInv

(***************************************************************************)
(* Runs, and the rows of their workflows.                                  *)
(***************************************************************************)

\* A run is a turn and its number in it; the runs of a turn resume one another.
LEMMA RunPairs ==
  ASSUME NEW r \in Runs
  PROVE  /\ r = <<r[1], r[2]>> /\ r[1] \in Turns /\ r[2] \in Nat \ {0}
         /\ Resume(r)[1] = r[1] /\ Resume(r) # r
         /\ Deferred(r) => Source(r) \in Runs /\ Resume(Source(r)) = r
         /\ ~Deferred(r) => r = <<r[1], 1>>
         /\ \A s \in Runs : Resume(s) = r => Source(r) = s /\ Deferred(r)
         /\ \A s \in Runs : Resume(r) = Resume(s) => r = s
<1>1. PICK t \in Turns : \E k \in 1..MaxRounds[t] : r = <<t, k>>
  BY DEF Runs
<1> PICK k \in 1..MaxRounds[t] : r = <<t, k>>
  BY <1>1
<1>2. MaxRounds[t] \in Nat /\ k \in Nat \ {0}
  BY AgentAssumption DEF Turns
<1>3. \A s \in Runs : \E u \in Turns, m \in Nat \ {0} : s = <<u, m>>
  <2> SUFFICES ASSUME NEW s \in Runs
               PROVE  \E u \in Turns, m \in Nat \ {0} : s = <<u, m>>
    OBVIOUS
  <2>1. PICK u \in Turns : \E m \in 1..MaxRounds[u] : s = <<u, m>>
    BY DEF Runs
  <2>2. MaxRounds[u] \in Nat
    BY AgentAssumption DEF Turns
  <2> QED BY <2>1, <2>2
<1>4. Deferred(r) => Source(r) \in Runs
  <2> SUFFICES ASSUME k > 1
               PROVE  <<t, k - 1>> \in Runs
    BY <1>1 DEF Deferred, Source
  <2>1. k - 1 \in 1..MaxRounds[t]
    BY <1>2
  <2> QED BY <2>1 DEF Runs
<1>5. Deferred(r) => Resume(Source(r)) = r
  BY <1>1, <1>2 DEF Deferred, Source, Resume
<1>6. \A s \in Runs : Resume(s) = r => Source(r) = s /\ Deferred(r)
  BY <1>3 DEF Resume, Source, Deferred
<1>7. \A s \in Runs : Resume(r) = Resume(s) => r = s
  BY <1>2, <1>3 DEF Resume
<1> QED BY <1>1, <1>2, <1>4, <1>5, <1>6, <1>7 DEF Resume, Deferred

\* A turn has a first run, which resumes none.
LEMMA FirstRuns ==
  ASSUME NEW t \in Turns
  PROVE  /\ <<t, 1>> \in Runs /\ ~Deferred(<<t, 1>>)
         /\ \A s \in Runs : Resume(s) # <<t, 1>>
<1>1. 1 \in 1..MaxRounds[t]
  BY AgentAssumption DEF Turns
<1>2. <<t, 1>> \in Runs
  BY <1>1 DEF Runs
<1>3. ~Deferred(<<t, 1>>)
  BY DEF Deferred
<1> QED BY <1>2, <1>3, RunPairs

\* The rows of the conversation's tables and of its workflow.
SeenRows == [turn : RunStatus, conversation : ConversationStatus, last : Nat]
Workflows == [pc : AgentPC, seen : SeenRows, ran : SUBSET Calls, last : Calls \cup {NoCall},
              asks : SUBSET Calls]
RunRows == [status : RunStatus, parent : Runs \cup {NoRun}, history : BOOLEAN]
MessageRows == [turn : Turns, role : {"USER", "ASSISTANT"}]
Actions == [status : ActionStatus, decision : {"NONE", "APPROVE", "REJECT"}]

\* A new workflow of a run.
LEMMA NewWorkflowRow ==
  ASSUME NEW pc \in AgentPC
  PROVE  /\ NewWorkflow(pc) \in Workflows /\ NewWorkflow(pc).pc = pc
         /\ NewWorkflow(pc).ran = {} /\ NewWorkflow(pc).asks = {}
  BY DEF NewWorkflow, Workflows, SeenRows, NothingSeen, RunStatus, ConversationStatus

\* The end of a session moves the workflow and forgets what the session has read.
LEMMA GotoMoves ==
  ASSUME AgentTypeOK, NEW r \in Runs, NEW pc \in AgentPC, Goto(r, pc)
  PROVE  \E w \in Workflows :
            /\ wf' = [wf EXCEPT ![r] = w] /\ w.pc = pc
            /\ w.ran = wf[r].ran /\ w.last = wf[r].last /\ w.asks = wf[r].asks
<1> DEFINE w == [wf[r] EXCEPT !.pc = pc, !.seen = NothingSeen]
<1>1. wf[r] \in Workflows /\ wf \in [Runs -> Workflows]
  BY DEF AgentTypeOK, Workflows, SeenRows
<1>2. NothingSeen \in SeenRows
  BY DEF SeenRows, NothingSeen, RunStatus, ConversationStatus
<1>3. w \in Workflows /\ w.pc = pc /\ w.ran = wf[r].ran /\ w.last = wf[r].last /\ w.asks = wf[r].asks
  BY <1>1, <1>2 DEF Workflows
<1>4. wf' = [wf EXCEPT ![r] = w]
  BY <1>1 DEF Goto
<1> QED BY <1>3, <1>4

\* A session reads rows of the types that they have.
LEMMA ReadRowsMoves ==
  ASSUME AgentTypeOK, NEW r \in Runs, NEW pc \in AgentPC, ReadRows(r, pc)
  PROVE  \E w \in Workflows :
            /\ wf' = [wf EXCEPT ![r] = w] /\ w.pc = pc
            /\ w.ran = wf[r].ran /\ w.last = wf[r].last /\ w.asks = wf[r].asks
<1> DEFINE seen == [turn |-> turn[r[1]], conversation |-> conversation, last |-> Len(messages)]
           w == [wf[r] EXCEPT !.pc = pc, !.seen = seen]
<1>1. wf[r] \in Workflows /\ wf \in [Runs -> Workflows]
  BY DEF AgentTypeOK, Workflows, SeenRows
<1>2. seen \in SeenRows
  BY RunPairs DEF SeenRows, AgentTypeOK
<1>3. wf' = [wf EXCEPT ![r] = w]
  BY <1>1 DEF ReadRows
<1> HIDE DEF seen
<1>4. w \in Workflows /\ w.pc = pc /\ w.ran = wf[r].ran /\ w.last = wf[r].last /\ w.asks = wf[r].asks
  BY <1>1, <1>2 DEF Workflows
<1> QED BY <1>3, <1>4

\* What a session writes: the status of its run; a turn that has begun stays begun; and the
\* status of the conversation is the new one, or the current one.
LEMMA WriteStatusWrites ==
  ASSUME AgentTypeOK, NEW r \in Runs, NEW status \in RunStatus, NEW turnStatus \in RunStatus \ {"NONE"},
         NEW conversationStatus \in ConversationStatus,
         WriteStatus(r, status, turnStatus, conversationStatus)
  PROVE  /\ run' \in [Runs -> RunRows] /\ run'[r].status = status
         /\ \A s \in Runs \ {r} : run'[s] = run[s]
         /\ turn' \in [Turns -> RunStatus]
         /\ \A t \in Turns : turn[t] # "NONE" => turn'[t] # "NONE"
         /\ conversation' \in {conversation, conversationStatus}
<1>1. run \in [Runs -> RunRows] /\ turn \in [Turns -> RunStatus] /\ r[1] \in Turns
  BY RunPairs DEF AgentTypeOK, RunRows
<1> DEFINE row == [run[r] EXCEPT !.status = status,
                                 !.history = @ \/ status \in {"WAITING_APPROVAL", "COMPLETED"}]
<1>2. row \in RunRows /\ row.status = status
  BY <1>1 DEF RunRows
<1>3. run' = [run EXCEPT ![r] = row]
  BY <1>1 DEF WriteStatus
<1> HIDE DEF row
<1>4. run' \in [Runs -> RunRows] /\ run'[r].status = status /\ \A s \in Runs \ {r} : run'[s] = run[s]
  BY <1>1, <1>2, <1>3
<1>5. /\ turn' = [turn EXCEPT ![r[1]] = IF turnStatus = wf[r].seen.turn THEN @ ELSE turnStatus]
      /\ conversation' = IF conversationStatus = wf[r].seen.conversation THEN conversation
                         ELSE conversationStatus
  BY DEF WriteStatus, Changed
<1> QED BY <1>1, <1>4, <1>5

(***************************************************************************)
(* The steps.                                                              *)
(***************************************************************************)

\* A step of a workflow that leaves the actions alone: what the answer asked for stays, what
\* has run is still executed, and the conversation does not begin to wait.
LEMMA WorkflowMoves ==
  ASSUME AgentInv, AgentTypeOK', NEW r \in Runs, NEW w \in Workflows,
         UNCHANGED <<created, action, effects>>, wf' = [wf EXCEPT ![r] = w],
         wf[r].pc # "none", w.pc # "none",
         wf[r].pc \in Outcome => w.pc \in Outcome /\ w.asks = wf[r].asks,
         w.asks # {} => Resume(r) \in Runs,
         \A s \in Runs \ {r} : run'[s] = run[s],
         \A t \in Turns : turn[t] # "NONE" => turn'[t] # "NONE",
         conversation' = "WAITING_APPROVAL" => conversation = "WAITING_APPROVAL",
         w.pc = "tool" => Deferred(r) /\ w.last \in Calls,
         w.ran \subseteq wf[r].ran,
         w.pc \in {"persist", "persist_commit", "done"}
            \/ run'[r].status \in {"WAITING_APPROVAL", "COMPLETED"} =>
               \A c \in Approved(r) : action[Source(r)][c].status = "EXECUTED"
  PROVE  AgentInv'
<1> USE DEF AgentInv
<1>1. wf'[r] = w /\ \A s \in Runs \ {r} : wf'[s] = wf[s]
  BY DEF AgentTypeOK
<1>2. \A s : /\ Asked(s)' = Asked(s) /\ Pending(s)' = Pending(s)
             /\ Approved(s)' = Approved(s)
  BY DEF Asked, Pending, Approved
<1>3. Created' = Created
  BY DEF Created
<1>4. CreatedInv'
  <2>1. \A s \in Runs : s[1] \in Turns
    BY RunPairs
  <2> QED BY <1>1, <1>3, <2>1 DEF CreatedInv
<1>5. AskedInv'
  BY <1>1, <1>2, <1>3 DEF AskedInv
<1>6. ActionInv'
  BY DEF ActionInv
<1>7. ToolInv'
  <2>1. ASSUME NEW s \in Runs
        PROVE  /\ wf'[s].pc = "tool" => Deferred(s) /\ wf'[s].last \in Calls
               /\ \A c \in wf'[s].ran : Deferred(s) /\ action[Source(s)][c].status = "EXECUTED"
               /\ wf'[s].pc \in {"persist", "persist_commit", "done"}
                     \/ run'[s].status \in {"WAITING_APPROVAL", "COMPLETED"} =>
                   \A c \in Approved(s) : action[Source(s)][c].status = "EXECUTED"
    <3>1. CASE s = r
      BY <1>1, <3>1 DEF ToolInv
    <3>2. CASE s # r
      BY <1>1, <3>2 DEF ToolInv
    <3> QED BY <3>1, <3>2
  <2> QED BY <1>2, <2>1 DEF ToolInv
<1> QED BY <1>4, <1>5, <1>6, <1>7

\* The row of a workflow, and the types of what most steps leave alone.
LEMMA WorkflowRow ==
  ASSUME AgentTypeOK, NEW r \in Runs
  PROVE  /\ wf[r] \in Workflows /\ wf[r].pc \in AgentPC /\ wf[r].ran \in SUBSET Calls
         /\ wf[r].asks \in SUBSET Calls /\ wf[r].last \in Calls \cup {NoCall}
  BY DEF AgentTypeOK, Workflows, SeenRows

\* A step that changes only the workflow of a run keeps the types.
LEMMA WorkflowTyped ==
  ASSUME AgentTypeOK, NEW r \in Runs, NEW w \in Workflows, wf' = [wf EXCEPT ![r] = w],
         UNCHANGED <<conversation, turn, run, created, action, messages, effects>>,
         agentFaults' \in 0..MaxAgentFaults
  PROVE  AgentTypeOK'
<1>1. wf' \in [Runs -> Workflows]
  BY DEF AgentTypeOK, Workflows, SeenRows
<1> QED BY <1>1 DEF AgentTypeOK, Workflows, SeenRows

\* A step that changes only the place of a workflow and what its session has read.
LEMMA PlaceMoves ==
  ASSUME AgentInv, NEW r \in Runs, NEW pc \in AgentPC \ {"none"}, Goto(r, pc) \/ ReadRows(r, pc),
         UNCHANGED <<conversation, turn, run, created, action, messages, effects>>,
         agentFaults' \in 0..MaxAgentFaults,
         wf[r].pc # "none", wf[r].pc \in Outcome => pc \in Outcome,
         pc = "tool" => Deferred(r) /\ wf[r].last \in Calls,
         pc \in {"persist", "persist_commit", "done"} =>
            wf[r].pc \in {"persist", "persist_commit", "done"}
  PROVE  AgentInv'
<1>1. PICK w \in Workflows : /\ wf' = [wf EXCEPT ![r] = w] /\ w.pc = pc
                             /\ w.ran = wf[r].ran /\ w.last = wf[r].last /\ w.asks = wf[r].asks
  BY GotoMoves, ReadRowsMoves DEF AgentInv
<1>2. AgentTypeOK'
  BY <1>1, WorkflowTyped DEF AgentInv
<1>3. w.asks # {} => Resume(r) \in Runs
  BY <1>1 DEF AgentInv, AskedInv
<1>4. w.pc \in {"persist", "persist_commit", "done"}
         \/ run'[r].status \in {"WAITING_APPROVAL", "COMPLETED"} =>
            \A c \in Approved(r) : action[Source(r)][c].status = "EXECUTED"
  BY <1>1 DEF AgentInv, ToolInv
<1> QED BY <1>1, <1>2, <1>3, <1>4, WorkflowMoves

\* The steps that only read, and those that fail, move the workflow.
LEMMA ReadingKeeps ==
  ASSUME AgentInv, NEW r \in Runs,
         Prepare(r) \/ Persist(r) \/ Fail(r) \/ PersistConflicts(r)
  PROVE  AgentInv'
<1>1. UNCHANGED <<conversation, turn, run, created, action, messages, effects>>
      /\ agentFaults' \in 0..MaxAgentFaults
  BY DEF Prepare, Persist, Fail, PersistConflicts, AgentInv, AgentTypeOK
<1>2. CASE Prepare(r)
  BY <1>1, <1>2, PlaceMoves DEF Prepare, At, AgentPC, Outcome
<1>3. CASE Persist(r)
  BY <1>1, <1>3, PlaceMoves DEF Persist, At, AgentPC, Outcome
<1>4. CASE Fail(r)
  BY <1>1, <1>4, PlaceMoves DEF Fail, At, AgentPC, Outcome
<1>5. CASE PersistConflicts(r)
  BY <1>1, <1>5, PlaceMoves DEF PersistConflicts, At, AgentPC, Outcome
<1> QED BY <1>2, <1>3, <1>4, <1>5

\* The faults move the workflow, too.
LEMMA FaultKeeps ==
  ASSUME AgentInv, NEW r \in Runs, AgentRestarts(r) \/ AgentReplays(r) \/ AgentRaises(r)
  PROVE  AgentInv'
<1>1. UNCHANGED <<conversation, turn, run, created, action, messages, effects>>
  BY DEF AgentRestarts, AgentReplays, AgentRaises
<1>2. agentFaults' \in 0..MaxAgentFaults
  BY AgentAssumption DEF AgentRestarts, AgentReplays, AgentRaises, AgentFault, AgentInv, AgentTypeOK
<1>3. CASE AgentRestarts(r)
  BY <1>1, <1>2, <1>3, PlaceMoves DEF AgentRestarts, At, AgentPC, Outcome
<1>4. CASE AgentRaises(r)
  BY <1>1, <1>2, <1>4, PlaceMoves DEF AgentRaises, At, AgentPC, Outcome
<1>5. CASE AgentReplays(r)
  <2>1. CASE At(r, "execute") /\ Goto(r, "prepare")
    BY <1>1, <1>2, <2>1, PlaceMoves DEF At, AgentPC, Outcome
  <2>2. CASE At(r, "done") /\ Goto(r, "persist")
    BY <1>1, <1>2, <2>2, PlaceMoves DEF At, AgentPC, Outcome
  <2>3. CASE At(r, "failed") /\ Goto(r, "fail")
    BY <1>1, <1>2, <2>3, PlaceMoves DEF At, AgentPC, Outcome
  <2>4. CASE At(r, "execute") /\ wf' = [wf EXCEPT ![r].ran = @ \ {wf[r].last}]
    <3> DEFINE w == [wf[r] EXCEPT !.ran = @ \ {wf[r].last}]
    <3>1. wf[r] \in Workflows /\ wf[r].pc = "execute"
      BY <2>4, WorkflowRow DEF At, AgentInv
    <3>2. /\ w \in Workflows /\ w.pc = "execute" /\ w.asks = wf[r].asks
          /\ w.ran \subseteq wf[r].ran
      BY <3>1 DEF Workflows
    <3>3. wf' = [wf EXCEPT ![r] = w]
      BY <2>4 DEF AgentInv, AgentTypeOK
    <3> HIDE DEF w
    <3>4. AgentTypeOK'
      BY <1>1, <1>2, <3>2, <3>3, WorkflowTyped DEF AgentInv
    <3>5. w.asks # {} => Resume(r) \in Runs
      BY <3>2 DEF AgentInv, AskedInv
    <3>6. run'[r].status \in {"WAITING_APPROVAL", "COMPLETED"} =>
            \A c \in Approved(r) : action[Source(r)][c].status = "EXECUTED"
      BY <1>1 DEF AgentInv, ToolInv
    <3> QED BY <1>1, <3>1, <3>2, <3>3, <3>4, <3>5, <3>6, WorkflowMoves DEF Outcome
  <2> QED BY <1>5, <2>1, <2>2, <2>3, <2>4 DEF AgentReplays
<1> QED BY <1>3, <1>4, <1>5

\* The first transaction of a tool remembers a call that was approved.
LEMMA ToolKeeps ==
  ASSUME AgentInv, NEW r \in Runs, NEW c \in Calls, Tool(r, c)
  PROVE  AgentInv'
<1> DEFINE pc == IF ValidApproval(r, c) THEN "tool" ELSE "fail"
           w == [wf[r] EXCEPT !.pc = pc, !.last = c]
<1>1. /\ wf[r] \in Workflows /\ wf[r].pc = "execute" /\ c \in Approved(r)
      /\ UNCHANGED <<conversation, turn, run, created, action, messages, effects, agentFaults>>
  BY WorkflowRow DEF Tool, At, AgentInv
<1>2. pc \in AgentPC /\ pc \in {"tool", "fail"}
  BY DEF AgentPC
<1>3. wf' = [wf EXCEPT ![r] = w]
  BY DEF Tool, AgentInv, AgentTypeOK
<1> HIDE DEF pc
<1>4. /\ w \in Workflows /\ w.pc = pc /\ w.asks = wf[r].asks /\ w.ran = wf[r].ran /\ w.last = c
  BY <1>1, <1>2 DEF Workflows
<1>5. Deferred(r)
  BY <1>1 DEF Approved
<1> HIDE DEF w
<1>6. AgentTypeOK'
  BY <1>1, <1>3, <1>4, WorkflowTyped DEF AgentInv, AgentTypeOK
<1>7. w.asks # {} => Resume(r) \in Runs
  BY <1>4 DEF AgentInv, AskedInv
<1>8. run'[r].status \in {"WAITING_APPROVAL", "COMPLETED"} =>
        \A d \in Approved(r) : action[Source(r)][d].status = "EXECUTED"
  BY <1>1 DEF AgentInv, ToolInv
<1> QED BY <1>1, <1>2, <1>3, <1>4, <1>5, <1>6, <1>7, <1>8, WorkflowMoves DEF Outcome

\* The model answers when all that was approved has run, and so is executed.
LEMMA AnswerKeeps ==
  ASSUME AgentInv, NEW r \in Runs, NEW asks \in SUBSET Calls, Answer(r, asks)
  PROVE  AgentInv'
<1> DEFINE w == [NewWorkflow("persist") EXCEPT !.asks = asks]
<1>1. /\ wf[r].pc = "execute" /\ wf' = [wf EXCEPT ![r] = w]
      /\ Approved(r) \subseteq wf[r].ran /\ (asks # {} => Resume(r) \in Runs)
      /\ UNCHANGED <<conversation, turn, run, created, action, messages, effects, agentFaults>>
  BY DEF Answer, At
<1>2. w \in Workflows /\ w.pc = "persist" /\ w.ran = {} /\ w.asks = asks
  <2>1. NewWorkflow("persist") \in Workflows /\ NewWorkflow("persist").pc = "persist"
        /\ NewWorkflow("persist").ran = {}
    BY NewWorkflowRow DEF AgentPC
  <2> QED BY <2>1 DEF Workflows
<1> HIDE DEF w
<1>3. AgentTypeOK'
  BY <1>1, <1>2, WorkflowTyped DEF AgentInv, AgentTypeOK
<1>4. \A c \in Approved(r) : action[Source(r)][c].status = "EXECUTED"
  BY <1>1 DEF AgentInv, ToolInv
<1> QED BY <1>1, <1>2, <1>3, <1>4, WorkflowMoves DEF Outcome

\* The commits that write a status keep the types.
LEMMA CommitTyped ==
  ASSUME AgentTypeOK, NEW r \in Runs, NEW pc \in AgentPC, Goto(r, pc),
         NEW status \in RunStatus, NEW turnStatus \in RunStatus \ {"NONE"},
         NEW conversationStatus \in ConversationStatus,
         WriteStatus(r, status, turnStatus, conversationStatus),
         UNCHANGED <<created, effects, agentFaults>>,
         action' \in [Runs -> [Calls -> Actions]],
         messages' \in Seq(MessageRows)
  PROVE  AgentTypeOK'
<1>1. PICK w \in Workflows : wf' = [wf EXCEPT ![r] = w]
  BY GotoMoves
<1>2. wf' \in [Runs -> Workflows]
  BY <1>1 DEF AgentTypeOK, Workflows, SeenRows
<1>3. /\ run' \in [Runs -> RunRows] /\ turn' \in [Turns -> RunStatus]
      /\ conversation' \in {conversation, conversationStatus}
  BY WriteStatusWrites
<1>4. conversation' \in ConversationStatus
  BY <1>3 DEF AgentTypeOK
<1> QED BY <1>2, <1>3, <1>4 DEF AgentTypeOK, Workflows, SeenRows, RunRows, Actions, MessageRows

\* A commit that makes no request of the users: the run begins, completes or fails.
LEMMA StatusCommitKeeps ==
  ASSUME AgentInv, NEW r \in Runs, PrepareCommit(r) \/ FailCommit(r) \/ PersistAnswer(r)
  PROVE  AgentInv'
<1>1. /\ action \in [Runs -> [Calls -> Actions]]
      /\ messages \in Seq(MessageRows)
      /\ r[1] \in Turns
  BY RunPairs DEF AgentInv, AgentTypeOK, Actions, MessageRows
<1>2. /\ UNCHANGED <<created, action, effects, agentFaults>>
      /\ messages' \in Seq(MessageRows)
  <2>1. UNCHANGED <<created, action, effects, agentFaults>>
    BY DEF PrepareCommit, FailCommit, PersistAnswer
  <2>2. messages' = messages \/ messages' = Append(messages, [turn |-> r[1], role |-> "ASSISTANT"])
    BY DEF PrepareCommit, FailCommit, PersistAnswer
  <2>3. [turn |-> r[1], role |-> "ASSISTANT"] \in MessageRows
    BY <1>1 DEF MessageRows
  <2> QED BY <1>1, <2>1, <2>2, <2>3
<1>3. ASSUME NEW next \in AgentPC \ {"none", "tool"}, Goto(r, next),
             NEW status \in RunStatus \ {"NONE"}, NEW turnStatus \in RunStatus \ {"NONE"},
             NEW conversationStatus \in ConversationStatus \ {"WAITING_APPROVAL"},
             WriteStatus(r, status, turnStatus, conversationStatus),
             wf[r].pc # "none", wf[r].pc \in Outcome => next \in Outcome,
             next \in {"persist", "persist_commit", "done"} \/ status \in {"WAITING_APPROVAL", "COMPLETED"} =>
                wf[r].pc \in {"persist", "persist_commit", "done"}
      PROVE  AgentInv'
  <2>1. PICK w \in Workflows : /\ wf' = [wf EXCEPT ![r] = w] /\ w.pc = next
                               /\ w.ran = wf[r].ran /\ w.last = wf[r].last /\ w.asks = wf[r].asks
    BY <1>3, GotoMoves DEF AgentInv
  <2>2. AgentTypeOK'
    BY <1>1, <1>2, <1>3, CommitTyped DEF AgentInv
  <2>3. /\ run'[r].status = status /\ \A s \in Runs \ {r} : run'[s] = run[s]
        /\ \A t \in Turns : turn[t] # "NONE" => turn'[t] # "NONE"
        /\ conversation' \in {conversation, conversationStatus}
    BY <1>3, WriteStatusWrites DEF AgentInv
  <2>4. w.asks # {} => Resume(r) \in Runs
    BY <2>1 DEF AgentInv, AskedInv
  <2>5. w.pc \in {"persist", "persist_commit", "done"}
           \/ run'[r].status \in {"WAITING_APPROVAL", "COMPLETED"} =>
              \A c \in Approved(r) : action[Source(r)][c].status = "EXECUTED"
    BY <1>3, <2>1, <2>3 DEF AgentInv, ToolInv
  <2> QED BY <1>2, <1>3, <2>1, <2>2, <2>3, <2>4, <2>5, WorkflowMoves
<1> USE DEF At, AgentPC, RunStatus, ConversationStatus, Outcome
<1>4. CASE PrepareCommit(r)
  <2>1. /\ wf[r].pc = "prepare_commit" /\ Goto(r, "execute")
        /\ WriteStatus(r, "RUNNING", "RUNNING", "ACTIVE")
    BY <1>4 DEF PrepareCommit
  <2> QED BY <1>3, <2>1
<1>5. CASE FailCommit(r)
  <2>1. /\ wf[r].pc = "fail_commit" /\ Goto(r, "failed")
        /\ WriteStatus(r, "FAILED", "FAILED", "FAILED")
    BY <1>5 DEF FailCommit
  <2> QED BY <1>3, <2>1
<1>6. CASE PersistAnswer(r)
  <2>1. /\ wf[r].pc = "persist_commit" /\ Goto(r, "done")
        /\ WriteStatus(r, "COMPLETED", "COMPLETED", "COMPLETED")
    BY <1>6 DEF PersistAnswer
  <2> QED BY <1>3, <2>1
<1> QED BY <1>4, <1>5, <1>6

\* The actions that are asked for are the first of the run; the conversation waits for them.
LEMMA PersistActionsKeeps ==
  ASSUME AgentInv, NEW r \in Runs, PersistActions(r)
  PROVE  AgentInv'
<1> USE DEF AgentInv
<1> DEFINE asks == wf[r].asks
           rows == [c \in Calls |-> IF c \in asks THEN [NoAction EXCEPT !.status = "PENDING"]
                                    ELSE action[r][c]]
<1>1. /\ wf[r].pc = "persist_commit" /\ asks # {} /\ asks \cap Asked(r) = {}
      /\ WriteStatus(r, "WAITING_APPROVAL", "WAITING_APPROVAL", "WAITING_APPROVAL")
      /\ Goto(r, "done") /\ UNCHANGED <<created, messages, effects, agentFaults>>
  BY DEF PersistActions, At
<1>2. /\ action \in [Runs -> [Calls -> Actions]] /\ asks \subseteq Calls
      /\ action' = [action EXCEPT ![r] = rows]
  BY WorkflowRow DEF PersistActions, AgentTypeOK, Actions
<1>3. rows \in [Calls -> Actions]
  BY <1>2 DEF NoAction, Actions, ActionStatus
<1>4. Asked(r) = {}
  BY <1>1 DEF AskedInv
<1>5. /\ \A c \in asks : rows[c].status = "PENDING" /\ rows[c].decision = "NONE"
      /\ \A c \in Calls \ asks : rows[c] = action[r][c] /\ action[r][c].status = "NONE"
  BY <1>2, <1>4 DEF NoAction, Asked
<1> HIDE DEF rows
<1>6. /\ action'[r] = rows /\ \A s \in Runs \ {r} : action'[s] = action[s]
      /\ action' \in [Runs -> [Calls -> Actions]]
  BY <1>2, <1>3
<1>7. PICK w \in Workflows : /\ wf' = [wf EXCEPT ![r] = w] /\ w.pc = "done"
                             /\ w.ran = wf[r].ran /\ w.last = wf[r].last /\ w.asks = wf[r].asks
  BY <1>1, GotoMoves DEF AgentPC
<1>8. wf'[r] = w /\ \A s \in Runs \ {r} : wf'[s] = wf[s]
  BY <1>7 DEF AgentTypeOK
<1>9. /\ run'[r].status = "WAITING_APPROVAL" /\ \A s \in Runs \ {r} : run'[s] = run[s]
      /\ \A t \in Turns : turn[t] # "NONE" => turn'[t] # "NONE"
  BY <1>1, WriteStatusWrites DEF RunStatus, ConversationStatus
<1>10. AgentTypeOK'
  <2>1. messages' \in Seq(MessageRows)
    BY <1>1 DEF AgentTypeOK, MessageRows
  <2> QED BY <1>1, <1>6, <2>1, CommitTyped DEF AgentPC, RunStatus, ConversationStatus
<1>11. Created' = Created
  BY <1>1 DEF Created
<1>12. CreatedInv'
  <2>1. \A s \in Runs : s[1] \in Turns
    BY RunPairs
  <2> QED BY <1>1, <1>7, <1>8, <1>9, <1>11, <2>1 DEF CreatedInv
<1>13. /\ Asked(r)' = asks /\ Pending(r)' = asks
       /\ \A s \in Runs \ {r} : Asked(s)' = Asked(s) /\ Pending(s)' = Pending(s)
  <2>1. \A c \in Calls : rows[c].status # "NONE" <=> c \in asks
    BY <1>5
  <2>2. \A c \in Calls : rows[c].status = "PENDING" <=> c \in asks
    BY <1>5
  <2> QED BY <1>2, <1>6, <2>1, <2>2 DEF Asked, Pending
<1>14. AskedInv'
  <2>1. ASSUME NEW s \in Runs
        PROVE  /\ Asked(s)' # {} => wf'[s].pc \in Outcome /\ wf'[s].asks = Asked(s)'
               /\ wf'[s].asks # {} => Resume(s) \in Runs
               /\ Resume(s) \in Created <=> Asked(s)' # {} /\ Pending(s)' = {}
    <3>1. CASE s = r
      BY <1>1, <1>4, <1>7, <1>8, <1>13, <3>1 DEF AskedInv, Outcome
    <3>2. CASE s # r
      BY <1>8, <1>13, <3>2 DEF AskedInv
    <3> QED BY <3>1, <3>2
  <2>2. \E s \in Runs : Pending(s)' # {}
    BY <1>1, <1>13
  <2> QED BY <1>11, <2>1, <2>2 DEF AskedInv
<1>15. ActionInv'
  <2>1. ASSUME NEW s \in Runs, NEW c \in Calls
        PROVE  /\ effects[s][c] = IF action'[s][c].status = "EXECUTED" THEN 1 ELSE 0
               /\ action'[s][c].decision = "APPROVE" <=> action'[s][c].status \in {"APPROVED", "EXECUTED"}
    <3>1. CASE s = r /\ c \in asks
      <4>1. action[r][c].status = "NONE"
        BY <1>4 DEF Asked
      <4> QED BY <1>5, <1>6, <3>1, <4>1 DEF ActionInv
    <3>2. CASE ~(s = r /\ c \in asks)
      BY <1>5, <1>6, <3>2 DEF ActionInv
    <3> QED BY <3>1, <3>2
  <2> QED BY <1>1, <2>1 DEF ActionInv
<1>16. \A s \in Runs : Deferred(s) => Source(s) \in Runs
  BY RunPairs
<1>17. \A s \in Runs, c \in Calls :
          /\ action'[s][c].decision = "APPROVE" <=> action[s][c].decision = "APPROVE"
          /\ action'[s][c].status = "EXECUTED" <=> action[s][c].status = "EXECUTED"
  BY <1>4, <1>5, <1>6 DEF ActionInv, Asked
<1>18. ToolInv'
  <2>1. \A s \in Runs : Approved(s)' = Approved(s)
    BY <1>16, <1>17 DEF Approved
  <2>2. \A s \in Runs : Approved(s) \subseteq Calls /\ wf'[s].ran \subseteq Calls
    BY <1>8, WorkflowRow DEF Approved, Workflows
  <2>3. ASSUME NEW s \in Runs
        PROVE  /\ wf'[s].pc = "tool" => Deferred(s) /\ wf'[s].last \in Calls
               /\ \A c \in wf'[s].ran : Deferred(s) /\ action'[Source(s)][c].status = "EXECUTED"
               /\ wf'[s].pc \in {"persist", "persist_commit", "done"}
                     \/ run'[s].status \in {"WAITING_APPROVAL", "COMPLETED"} =>
                   \A c \in Approved(s) : action'[Source(s)][c].status = "EXECUTED"
    <3>1. \A c \in Approved(s) : Deferred(s)
      BY DEF Approved
    <3>2. CASE s = r
      BY <1>1, <1>7, <1>8, <1>16, <1>17, <2>2, <3>1, <3>2 DEF ToolInv
    <3>3. CASE s # r
      BY <1>8, <1>9, <1>16, <1>17, <2>2, <3>1, <3>3 DEF ToolInv
    <3> QED BY <3>2, <3>3
  <2> QED BY <2>1, <2>3 DEF ToolInv
<1> QED BY <1>10, <1>12, <1>14, <1>15, <1>18

\* The second transaction of a tool executes an action that was approved and had no effect.
LEMMA ToolCommitKeeps ==
  ASSUME AgentInv, NEW r \in Runs, ToolCommit(r)
  PROVE  AgentInv'
<1> USE DEF AgentInv
<1>0. PICK c \in Calls, s \in Runs : c = wf[r].last /\ s = Source(r)
  <2>1. wf[r].pc = "tool"
    BY DEF ToolCommit, At
  <2> QED BY <2>1, RunPairs DEF ToolInv
<1> DEFINE w == [wf[r] EXCEPT !.pc = "execute", !.ran = @ \cup {c}]
           done == [action[s][c] EXCEPT !.status = "EXECUTED"]
           rows == [action[s] EXCEPT ![c] = done]
           counts == [effects[s] EXCEPT ![c] = @ + 1]
<1>1. /\ wf[r].pc = "tool" /\ UNCHANGED <<conversation, turn, run, created, messages, agentFaults>>
      /\ action[s][c].decision = "APPROVE" /\ action[s][c].status = "APPROVED"
  BY <1>0 DEF ToolCommit, At, ValidApproval
<1>2. Deferred(r)
  BY <1>1 DEF ToolInv
<1>3. /\ action \in [Runs -> [Calls -> Actions]] /\ effects \in [Runs -> [Calls -> Nat]]
      /\ wf \in [Runs -> Workflows] /\ wf[r] \in Workflows
  BY DEF AgentTypeOK, Actions, Workflows, SeenRows
<1>4. done \in Actions /\ done.status = "EXECUTED" /\ done.decision = "APPROVE"
  <2>1. action[s][c] \in Actions
    BY <1>3
  <2> QED BY <1>1, <2>1 DEF Actions, ActionStatus
<1>5. /\ w \in Workflows /\ w.pc = "execute" /\ w.asks = wf[r].asks
      /\ w.ran = wf[r].ran \cup {c}
  BY <1>2, <1>3 DEF Workflows, AgentPC
<1>6. /\ wf' = [wf EXCEPT ![r] = w] /\ action' = [action EXCEPT ![s] = rows]
      /\ effects' = [effects EXCEPT ![s] = counts]
  BY <1>0, <1>3 DEF ToolCommit
<1>7. rows \in [Calls -> Actions] /\ counts \in [Calls -> Nat]
  BY <1>2, <1>3, <1>4
<1>8. rows[c] = done /\ counts[c] = effects[s][c] + 1
      /\ \A d \in Calls \ {c} : rows[d] = action[s][d] /\ counts[d] = effects[s][d]
  BY <1>2, <1>3
<1> HIDE DEF w, done, rows, counts
<1>9. /\ action' \in [Runs -> [Calls -> Actions]] /\ effects' \in [Runs -> [Calls -> Nat]]
      /\ wf' \in [Runs -> Workflows]
      /\ wf'[r] = w /\ \A q \in Runs \ {r} : wf'[q] = wf[q]
      /\ action'[s] = rows /\ \A q \in Runs \ {s} : action'[q] = action[q]
      /\ effects'[s] = counts /\ \A q \in Runs \ {s} : effects'[q] = effects[q]
  BY <1>2, <1>3, <1>5, <1>6, <1>7
<1>10. AgentTypeOK'
  BY <1>1, <1>9 DEF AgentTypeOK, Actions, Workflows, SeenRows
<1>11. \A q \in Runs, d \in Calls :
          /\ action'[q][d].decision = action[q][d].decision
          /\ q = s /\ d = c => action'[q][d].status = "EXECUTED" /\ effects'[q][d] = effects[q][d] + 1
          /\ ~(q = s /\ d = c) =>
                action'[q][d].status = action[q][d].status /\ effects'[q][d] = effects[q][d]
          /\ action[q][d].status = "EXECUTED" => action'[q][d].status = "EXECUTED"
  BY <1>1, <1>4, <1>8, <1>9
<1>12. \A q \in Runs : Asked(q)' = Asked(q) /\ Pending(q)' = Pending(q)
  BY <1>1, <1>11 DEF Asked, Pending
<1>13. Created' = Created
  BY <1>1 DEF Created
<1>14. CreatedInv'
  BY <1>1, <1>5, <1>9, <1>13 DEF CreatedInv
<1>15. AskedInv'
  <2>1. Asked(r) = {}
    BY <1>1 DEF AskedInv, Outcome
  <2> QED BY ZenonT(60), <1>1, <1>5, <1>9, <1>12, <1>13, <2>1 DEF AskedInv
<1>16. ActionInv'
  <2>1. ASSUME NEW q \in Runs, NEW d \in Calls
        PROVE  /\ effects'[q][d] = IF action'[q][d].status = "EXECUTED" THEN 1 ELSE 0
               /\ action'[q][d].decision = "APPROVE" <=> action'[q][d].status \in {"APPROVED", "EXECUTED"}
    <3>1. CASE q = s /\ d = c
      <4>1. effects[s][c] = 0
        BY <1>1, <1>2 DEF ActionInv
      <4> QED BY <1>1, <1>11, <3>1, <4>1
    <3>2. CASE ~(q = s /\ d = c)
      BY <1>11, <3>2 DEF ActionInv
    <3> QED BY <3>1, <3>2
  <2> QED BY <2>1 DEF ActionInv
<1>17. \A q \in Runs : Deferred(q) => Source(q) \in Runs
  BY RunPairs
<1>18. ToolInv'
  <2>1. \A q \in Runs : Approved(q)' = Approved(q)
    BY ZenonT(60), <1>11, <1>17 DEF Approved
  <2>2. \A q \in Runs : Approved(q) \subseteq Calls /\ wf[q].ran \subseteq Calls
    BY WorkflowRow DEF Approved
  <2>3. ASSUME NEW q \in Runs
        PROVE  /\ wf'[q].pc = "tool" => Deferred(q) /\ wf'[q].last \in Calls
               /\ \A d \in wf'[q].ran : Deferred(q) /\ action'[Source(q)][d].status = "EXECUTED"
               /\ wf'[q].pc \in {"persist", "persist_commit", "done"}
                     \/ run'[q].status \in {"WAITING_APPROVAL", "COMPLETED"} =>
                   \A d \in Approved(q) : action'[Source(q)][d].status = "EXECUTED"
    <3>1. \A d \in Calls : Deferred(q) /\ action[Source(q)][d].status = "EXECUTED" =>
                              action'[Source(q)][d].status = "EXECUTED"
      BY <1>11, <1>17
    <3>2. wf'[q].pc = "tool" => Deferred(q) /\ wf'[q].last \in Calls
      BY <1>5, <1>9 DEF ToolInv
    <3>3. \A d \in wf[q].ran : Deferred(q) /\ action'[Source(q)][d].status = "EXECUTED"
      BY <2>2, <3>1 DEF ToolInv
    <3>4. action'[Source(r)][c].status = "EXECUTED"
      BY <1>0, <1>11
    <3>5. \A d \in wf'[q].ran : Deferred(q) /\ action'[Source(q)][d].status = "EXECUTED"
      BY <1>2, <1>5, <1>9, <3>3, <3>4
    <3>6. wf'[q].pc \in {"persist", "persist_commit", "done"} => wf[q].pc = wf'[q].pc
      BY <1>5, <1>9
    <3>7. wf'[q].pc \in {"persist", "persist_commit", "done"}
             \/ run'[q].status \in {"WAITING_APPROVAL", "COMPLETED"} =>
           \A d \in Approved(q) : action[Source(q)][d].status = "EXECUTED"
      BY <1>1, <3>6 DEF ToolInv
    <3>8. \A d \in Approved(q) : Deferred(q) /\ d \in Calls
      BY <2>2 DEF Approved
    <3> QED BY <3>1, <3>2, <3>5, <3>7, <3>8
  <2> QED BY <2>1, <2>3 DEF ToolInv
<1> QED BY <1>10, <1>14, <1>15, <1>16, <1>18

\* A run that is queued is the newest, with a new workflow.
LEMMA QueueCreates ==
  ASSUME AgentTypeOK, CreatedInv, NEW r \in Runs, r \notin Created,
         NEW parent \in Runs \cup {NoRun}, Queue(r, parent)
  PROVE  /\ run' \in [Runs -> RunRows] /\ created' \in Seq(Runs) /\ wf' \in [Runs -> Workflows]
         /\ Created' = Created \cup {r}
         /\ \A j, k \in DOMAIN created' : created'[j] = created'[k] => j = k
         /\ run'[r].status = "QUEUED" /\ wf'[r] = NewWorkflow("prepare")
         /\ \A s \in Runs \ {r} : run'[s] = run[s] /\ wf'[s] = wf[s]
<1>1. /\ run \in [Runs -> RunRows] /\ created \in Seq(Runs) /\ wf \in [Runs -> Workflows]
  BY DEF AgentTypeOK, RunRows, Workflows, SeenRows
<1>2. NewWorkflow("prepare") \in Workflows
  BY NewWorkflowRow DEF AgentPC
<1>3. [status |-> "QUEUED", parent |-> parent, history |-> FALSE] \in RunRows
  BY DEF RunRows, RunStatus
<1>4. /\ run' \in [Runs -> RunRows] /\ run'[r].status = "QUEUED"
      /\ \A s \in Runs \ {r} : run'[s] = run[s]
  BY <1>1, <1>3 DEF Queue
<1>5. /\ wf' \in [Runs -> Workflows] /\ wf'[r] = NewWorkflow("prepare")
      /\ \A s \in Runs \ {r} : wf'[s] = wf[s]
  BY <1>1, <1>2 DEF Queue
<1>6. PICK n \in Nat : n = Len(created) /\ DOMAIN created = 1..n
  BY <1>1
<1>7. /\ created' \in Seq(Runs) /\ DOMAIN created' = 1..(n + 1)
      /\ created'[n + 1] = r /\ \A k \in 1..n : created'[k] = created[k]
  BY <1>1, <1>6 DEF Queue
<1>8. \A k \in 1..(n + 1) : k \in 1..n \/ k = n + 1
  BY <1>6
<1>9. \A k \in 1..n : created[k] # r
  BY <1>6 DEF Created
<1>10. Created' = Created \cup {r}
  <2>1. 1..n \subseteq 1..(n + 1) /\ n + 1 \in 1..(n + 1)
    BY <1>6
  <2> QED BY <1>6, <1>7, <1>8, <2>1 DEF Created
<1>11. \A j, k \in DOMAIN created' : created'[j] = created'[k] => j = k
  BY <1>6, <1>7, <1>8, <1>9 DEF CreatedInv
<1> QED BY <1>4, <1>5, <1>7, <1>10, <1>11

\* A run that is not created has no actions, no approved calls that it resumes are taken away
\* from it, and it has no status.
LEMMA NotCreated ==
  ASSUME AgentInv, NEW r \in Runs, r \notin Created
  PROVE  wf[r].pc = "none" /\ run[r].status = "NONE" /\ Asked(r) = {} /\ Resume(r) \notin Created
  BY DEF AgentInv, CreatedInv, AskedInv, Outcome

\* The first run of a turn is created with the turn.
LEMMA SubmitTurnKeeps ==
  ASSUME AgentInv, NEW t \in Turns, SubmitTurn(t)
  PROVE  AgentInv'
<1> USE DEF AgentInv
<1>0. PICK r \in Runs : r = <<t, 1>> /\ ~Deferred(r) /\ \A s \in Runs : Resume(s) # r
  BY FirstRuns
<1>1. /\ turn[t] = "NONE" /\ turn' = [turn EXCEPT ![t] = "QUEUED"] /\ conversation' = "ACTIVE"
      /\ messages' = Append(messages, [turn |-> t, role |-> "USER"])
      /\ UNCHANGED <<action, effects, agentFaults>>
  BY DEF SubmitTurn
<1>2. r \notin Created
  BY <1>0, <1>1 DEF CreatedInv
<1>3. PICK parent \in Runs \cup {NoRun} : Queue(r, parent)
  <2>1. created # <<>> => created[Len(created)] \in Runs
    BY DEF AgentTypeOK
  <2> QED BY <1>0, <2>1 DEF SubmitTurn
<1>4. /\ run' \in [Runs -> RunRows] /\ created' \in Seq(Runs) /\ wf' \in [Runs -> Workflows]
      /\ Created' = Created \cup {r}
      /\ \A j, k \in DOMAIN created' : created'[j] = created'[k] => j = k
      /\ run'[r].status = "QUEUED" /\ wf'[r] = NewWorkflow("prepare")
      /\ \A s \in Runs \ {r} : run'[s] = run[s] /\ wf'[s] = wf[s]
  BY <1>2, <1>3, QueueCreates
<1>5. wf'[r].pc = "prepare" /\ wf'[r].ran = {} /\ wf'[r].asks = {}
  BY <1>4, NewWorkflowRow DEF AgentPC
<1>6. AgentTypeOK'
  <2>1. messages \in Seq(MessageRows) /\ [turn |-> t, role |-> "USER"] \in MessageRows
    BY DEF AgentTypeOK, MessageRows
  <2>2. messages' \in Seq(MessageRows)
    BY <1>1, <2>1
  <2>3. turn' \in [Turns -> RunStatus] /\ conversation' \in ConversationStatus
    BY <1>1 DEF AgentTypeOK, RunStatus, ConversationStatus
  <2> QED BY <1>1, <1>4, <2>2, <2>3 DEF AgentTypeOK, RunRows, Workflows, SeenRows, MessageRows
<1>7. CreatedInv'
  <2>1. turn'[t] # "NONE" /\ \A u \in Turns : turn[u] # "NONE" => turn'[u] # "NONE"
    BY <1>1 DEF AgentTypeOK
  <2>2. r[1] = t /\ \A s \in Runs : s[1] \in Turns
    BY <1>0, RunPairs
  <2> QED BY <1>4, <1>5, <2>1, <2>2 DEF CreatedInv
<1>8. \A s : Asked(s)' = Asked(s) /\ Pending(s)' = Pending(s) /\ Approved(s)' = Approved(s)
  BY <1>1 DEF Asked, Pending, Approved
<1>9. Asked(r) = {}
  BY <1>2, NotCreated
<1>10. AskedInv'
  <2>1. ASSUME NEW s \in Runs
        PROVE  /\ Asked(s) # {} => wf'[s].pc \in Outcome /\ wf'[s].asks = Asked(s)
               /\ wf'[s].asks # {} => Resume(s) \in Runs
               /\ Resume(s) \in Created' <=> Asked(s) # {} /\ Pending(s) = {}
    <3>1. Resume(s) \in Created' <=> Resume(s) \in Created
      BY <1>0, <1>4
    <3>2. CASE s = r
      BY <1>5, <1>9, <3>1, <3>2 DEF AskedInv
    <3>3. CASE s # r
      BY <1>4, <3>1, <3>3 DEF AskedInv
    <3> QED BY <3>2, <3>3
  <2> QED BY <1>1, <1>8, <2>1 DEF AskedInv
<1>11. ActionInv'
  BY <1>1 DEF ActionInv
<1>12. ToolInv'
  <2>1. ASSUME NEW s \in Runs
        PROVE  /\ wf'[s].pc = "tool" => Deferred(s) /\ wf'[s].last \in Calls
               /\ \A c \in wf'[s].ran : Deferred(s) /\ action[Source(s)][c].status = "EXECUTED"
               /\ wf'[s].pc \in {"persist", "persist_commit", "done"}
                     \/ run'[s].status \in {"WAITING_APPROVAL", "COMPLETED"} =>
                   \A c \in Approved(s) : action[Source(s)][c].status = "EXECUTED"
    <3>1. CASE s = r
      BY <1>4, <1>5, <3>1
    <3>2. CASE s # r
      BY <1>4, <3>2 DEF ToolInv
    <3> QED BY <3>1, <3>2
  <2> QED BY <1>1, <1>8, <2>1 DEF ToolInv
<1> QED BY <1>6, <1>7, <1>10, <1>11, <1>12

\* A decision is of an action that is pending; what it changes of the actions.
LEMMA DecidedRows ==
  ASSUME AgentInv, NEW r \in Runs, NEW c \in Calls, NEW decision \in {"APPROVE", "REJECT"},
         c \in Pending(r), Decided(r, c, decision), effects' = effects
  PROVE  /\ action' \in [Runs -> [Calls -> Actions]]
         /\ Asked(r)' = Asked(r) /\ Pending(r)' = StillPending(r, c)
         /\ \A s \in Runs \ {r} : action'[s] = action[s]
         /\ \A s \in Runs \ {r} : Asked(s)' = Asked(s) /\ Pending(s)' = Pending(s)
         /\ \A s \in Runs, d \in Calls :
               action[s][d].status = "EXECUTED" => action'[s][d].status = "EXECUTED"
         /\ Resume(r) \notin Created
         /\ ActionInv'
<1> USE DEF AgentInv
<1> DEFINE row == [status |-> IF decision = "APPROVE" THEN "APPROVED" ELSE "REJECTED",
                   decision |-> decision]
           rows == [action[r] EXCEPT ![c] = row]
<1>1. action \in [Runs -> [Calls -> Actions]]
  BY DEF AgentTypeOK, Actions
<1>2. /\ row \in Actions /\ row.status \in {"APPROVED", "REJECTED"}
      /\ row.decision = "APPROVE" <=> row.status = "APPROVED"
  BY DEF Actions, ActionStatus
<1>3. action' = [action EXCEPT ![r] = rows]
  BY <1>1 DEF Decided
<1> HIDE DEF row
<1>4. rows \in [Calls -> Actions] /\ rows[c] = row /\ \A d \in Calls \ {c} : rows[d] = action[r][d]
  BY <1>1, <1>2
<1> HIDE DEF rows
<1>5. /\ action' \in [Runs -> [Calls -> Actions]] /\ action'[r] = rows
      /\ \A s \in Runs \ {r} : action'[s] = action[s]
  BY <1>1, <1>3, <1>4
<1>6. action[r][c].status = "PENDING"
  BY DEF Pending
<1>7. \A d \in Calls : rows[d].status # "NONE" <=> action[r][d].status # "NONE"
  BY <1>2, <1>4, <1>6
<1>8. \A d \in Calls : rows[d].status = "PENDING" <=> action[r][d].status = "PENDING" /\ d # c
  BY <1>2, <1>4
<1>9. Asked(r)' = Asked(r) /\ Pending(r)' = StillPending(r, c)
  BY <1>5, <1>7, <1>8 DEF Asked, Pending, StillPending
<1>10. \A s \in Runs \ {r} : Asked(s)' = Asked(s) /\ Pending(s)' = Pending(s)
  BY <1>5 DEF Asked, Pending
<1>11. \A s \in Runs, d \in Calls :
          action[s][d].status = "EXECUTED" => action'[s][d].status = "EXECUTED"
  BY <1>4, <1>5, <1>6
<1>12. Resume(r) \notin Created
  BY DEF AskedInv
<1>13. ActionInv'
  <2>1. ASSUME NEW s \in Runs, NEW d \in Calls
        PROVE  /\ effects[s][d] = IF action'[s][d].status = "EXECUTED" THEN 1 ELSE 0
               /\ action'[s][d].decision = "APPROVE" <=> action'[s][d].status \in {"APPROVED", "EXECUTED"}
    <3>1. CASE s = r /\ d = c
      BY <1>2, <1>4, <1>5, <1>6, <3>1 DEF ActionInv
    <3>2. CASE ~(s = r /\ d = c)
      BY <1>4, <1>5, <3>2 DEF ActionInv
    <3> QED BY <3>1, <3>2
  <2> QED BY <2>1 DEF ActionInv
<1> QED BY <1>5, <1>9, <1>10, <1>11, <1>12, <1>13

\* What a run resumes is decided, so that a decision on another run leaves it alone.
LEMMA DecisionKeepsTools ==
  ASSUME AgentInv, NEW r \in Runs, NEW c \in Calls, c \in Pending(r),
         \A s \in Runs \ {r} : action'[s] = action[s],
         \A s \in Runs, d \in Calls :
            action[s][d].status = "EXECUTED" => action'[s][d].status = "EXECUTED",
         \A s \in Created : wf'[s] = wf[s] /\ run'[s] = run[s],
         \A s \in Runs \ Created : /\ wf'[s].pc \in {"none", "prepare"} /\ wf'[s].ran \subseteq wf[s].ran
                                   /\ run'[s].status \in {"NONE", "QUEUED"}
  PROVE  ToolInv'
<1> USE DEF AgentInv
<1>1. ASSUME NEW s \in Created
      PROVE  /\ s \in Runs /\ Approved(s)' = Approved(s)
             /\ \A d \in Calls : Deferred(s) /\ action[Source(s)][d].status = "EXECUTED" =>
                                    action'[Source(s)][d].status = "EXECUTED"
  <2>1. s \in Runs
    BY DEF Created, AgentTypeOK
  <2>2. Deferred(s) => Source(s) \in Runs /\ Resume(Source(s)) = s
    BY <2>1, RunPairs
  <2>3. Deferred(s) => Source(s) # r
    BY <2>2 DEF AskedInv
  <2>4. Approved(s)' = Approved(s)
    <3>1. CASE Deferred(s)
      <4>1. action'[Source(s)] = action[Source(s)]
        BY <2>2, <2>3, <3>1
      <4> QED BY <3>1, <4>1 DEF Approved
    <3>2. CASE ~Deferred(s)
      BY <3>2 DEF Approved
    <3> QED BY <3>1, <3>2
  <2> QED BY <2>1, <2>2, <2>4
<1>2. ASSUME NEW s \in Runs
      PROVE  /\ wf'[s].pc = "tool" => Deferred(s) /\ wf'[s].last \in Calls
             /\ \A d \in wf'[s].ran : Deferred(s) /\ action'[Source(s)][d].status = "EXECUTED"
             /\ wf'[s].pc \in {"persist", "persist_commit", "done"}
                   \/ run'[s].status \in {"WAITING_APPROVAL", "COMPLETED"} =>
                 \A d \in Approved(s)' : action'[Source(s)][d].status = "EXECUTED"
  <2>1. CASE s \in Created
    <3>1. \A d \in Approved(s) : Deferred(s) /\ d \in Calls
      BY DEF Approved
    <3>2. wf[s].ran \subseteq Calls
      BY WorkflowRow
    <3> QED BY <1>1, <2>1, <3>1, <3>2 DEF ToolInv
  <2>2. CASE s \notin Created
    <3>1. wf[s].ran \subseteq Calls
      BY WorkflowRow
    <3>2. \A d \in wf[s].ran : Deferred(s) /\ action[Source(s)][d].status = "EXECUTED"
      BY DEF ToolInv
    <3>3. Deferred(s) => Source(s) \in Runs
      BY RunPairs
    <3> QED BY <2>2, <3>1, <3>2, <3>3
  <2> QED BY <2>1, <2>2
<1> QED BY <1>2 DEF ToolInv

\* A decision that is not the last leaves one to take.
LEMMA DecideKeeps ==
  ASSUME AgentInv, NEW r \in Runs, NEW c \in Calls, NEW decision \in {"APPROVE", "REJECT"},
         Decide(r, c, decision)
  PROVE  AgentInv'
<1> USE DEF AgentInv
<1>1. /\ c \in Pending(r) /\ Decided(r, c, decision)
      /\ StillPending(r, c) # {} \/ Resume(r) \in Created
      /\ UNCHANGED <<conversation, turn, run, created, messages, effects, wf, agentFaults>>
  BY DEF Decide
<1>2. /\ action' \in [Runs -> [Calls -> Actions]]
      /\ Asked(r)' = Asked(r) /\ Pending(r)' = StillPending(r, c)
      /\ \A s \in Runs \ {r} : action'[s] = action[s]
      /\ \A s \in Runs \ {r} : Asked(s)' = Asked(s) /\ Pending(s)' = Pending(s)
      /\ \A s \in Runs, d \in Calls :
            action[s][d].status = "EXECUTED" => action'[s][d].status = "EXECUTED"
      /\ Resume(r) \notin Created
      /\ ActionInv'
  BY <1>1, DecidedRows
<1>3. AgentTypeOK'
  BY <1>1, <1>2 DEF AgentTypeOK, Actions
<1>4. Created' = Created
  BY <1>1 DEF Created
<1>5. CreatedInv'
  BY <1>1, <1>4 DEF CreatedInv
<1>6. AskedInv'
  <2>1. StillPending(r, c) # {} /\ Pending(r) # {}
    BY <1>1, <1>2
  <2> QED BY <1>1, <1>2, <1>4, <2>1 DEF AskedInv
<1>7. ToolInv'
  <2>1. \A s \in Created : s \in Runs /\ wf'[s] = wf[s] /\ run'[s] = run[s]
    BY <1>1 DEF Created, AgentTypeOK
  <2>2. \A s \in Runs \ Created : /\ wf'[s].pc = "none" /\ run'[s].status = "NONE"
                              /\ wf'[s].ran \subseteq wf[s].ran
    BY <1>1, NotCreated
  <2> QED BY <1>1, <1>2, <2>1, <2>2, DecisionKeepsTools
<1> QED BY <1>2, <1>3, <1>5, <1>6, <1>7

\* The last decision creates the run that resumes this one.
LEMMA DecideLastKeeps ==
  ASSUME AgentInv, NEW r \in Runs, NEW c \in Calls, NEW decision \in {"APPROVE", "REJECT"},
         DecideLast(r, c, decision)
  PROVE  AgentInv'
<1> USE DEF AgentInv
<1>1. /\ c \in Pending(r) /\ Decided(r, c, decision) /\ StillPending(r, c) = {}
      /\ Queue(Resume(r), r) /\ turn' = [turn EXCEPT ![r[1]] = "QUEUED"]
      /\ conversation' = "ACTIVE" /\ UNCHANGED <<messages, effects, agentFaults>>
  BY DEF DecideLast
<1>2. /\ action' \in [Runs -> [Calls -> Actions]]
      /\ Asked(r)' = Asked(r) /\ Pending(r)' = StillPending(r, c)
      /\ \A s \in Runs \ {r} : action'[s] = action[s]
      /\ \A s \in Runs \ {r} : Asked(s)' = Asked(s) /\ Pending(s)' = Pending(s)
      /\ \A s \in Runs, d \in Calls :
            action[s][d].status = "EXECUTED" => action'[s][d].status = "EXECUTED"
      /\ Resume(r) \notin Created
      /\ ActionInv'
  BY <1>1, DecidedRows
<1>3. Asked(r) # {}
  BY <1>1 DEF Pending, Asked
<1>4. PICK n \in Runs : n = Resume(r) /\ n # r /\ n[1] = r[1] /\ \A s \in Runs : Resume(s) = n => s = r
  <2>1. Resume(r) \in Runs
    BY <1>3 DEF AskedInv
  <2> QED BY <2>1, RunPairs
<1>5. /\ run' \in [Runs -> RunRows] /\ created' \in Seq(Runs) /\ wf' \in [Runs -> Workflows]
      /\ Created' = Created \cup {n}
      /\ \A j, k \in DOMAIN created' : created'[j] = created'[k] => j = k
      /\ run'[n].status = "QUEUED" /\ wf'[n] = NewWorkflow("prepare")
      /\ \A s \in Runs \ {n} : run'[s] = run[s] /\ wf'[s] = wf[s]
  BY <1>1, <1>2, <1>4, QueueCreates
<1>6. wf'[n].pc = "prepare" /\ wf'[n].ran = {} /\ wf'[n].asks = {}
  BY <1>5, NewWorkflowRow DEF AgentPC
<1>7. r[1] \in Turns /\ \A s \in Runs : s[1] \in Turns
  BY RunPairs
<1>8. AgentTypeOK'
  <2>1. turn' \in [Turns -> RunStatus] /\ conversation' \in ConversationStatus
    BY <1>1 DEF AgentTypeOK, RunStatus, ConversationStatus
  <2> QED BY <1>1, <1>2, <1>5, <2>1 DEF AgentTypeOK, RunRows, Workflows, SeenRows, Actions
<1>9. CreatedInv'
  <2>1. turn'[r[1]] # "NONE" /\ \A u \in Turns : turn[u] # "NONE" => turn'[u] # "NONE"
    BY <1>1, <1>7 DEF AgentTypeOK
  <2> QED BY <1>4, <1>5, <1>6, <1>7, <2>1 DEF CreatedInv
<1>10. Asked(n) = {} /\ n \notin Created
  BY <1>2, <1>4, NotCreated
<1>11. AskedInv'
  <2>1. ASSUME NEW s \in Runs
        PROVE  /\ Asked(s)' # {} => wf'[s].pc \in Outcome /\ wf'[s].asks = Asked(s)'
               /\ wf'[s].asks # {} => Resume(s) \in Runs
               /\ Resume(s) \in Created' <=> Asked(s)' # {} /\ Pending(s)' = {}
    <3>1. CASE s = r
      BY <1>1, <1>2, <1>3, <1>4, <1>5, <3>1 DEF AskedInv
    <3>2. CASE s = n
      BY <1>2, <1>4, <1>5, <1>6, <1>10, <3>2 DEF AskedInv
    <3>3. CASE s # r /\ s # n
      BY <1>2, <1>4, <1>5, <3>3 DEF AskedInv
    <3> QED BY <3>1, <3>2, <3>3
  <2> QED BY <1>1, <2>1 DEF AskedInv
<1>12. ToolInv'
  <2>1. \A s \in Created : s \in Runs /\ wf'[s] = wf[s] /\ run'[s] = run[s]
    BY <1>5, <1>10 DEF Created, AgentTypeOK
  <2>2. \A s \in Runs \ Created : /\ wf'[s].pc \in {"none", "prepare"}
                                  /\ wf'[s].ran \subseteq wf[s].ran
                                  /\ run'[s].status \in {"NONE", "QUEUED"}
    <3> SUFFICES ASSUME NEW s \in Runs \ Created
                 PROVE  /\ wf'[s].pc \in {"none", "prepare"} /\ wf'[s].ran \subseteq wf[s].ran
                        /\ run'[s].status \in {"NONE", "QUEUED"}
      OBVIOUS
    <3>1. CASE s = n
      BY <1>5, <1>6, <3>1
    <3>2. CASE s # n
      BY <1>5, <3>2, NotCreated
    <3> QED BY <3>1, <3>2
  <2> QED BY <1>1, <1>2, <2>1, <2>2, DecisionKeepsTools
<1> QED BY <1>2, <1>8, <1>9, <1>11, <1>12

(***************************************************************************)
(* The theorems.                                                           *)
(***************************************************************************)

\* The conversation starts without turns.
LEMMA AgentStarts == ASSUME AgentInit PROVE AgentInv
<1>1. /\ created = <<>> /\ messages = <<>> /\ conversation = "ACTIVE" /\ agentFaults = 0
      /\ \A r \in Runs : /\ run[r] = [status |-> "NONE", parent |-> NoRun, history |-> FALSE]
                         /\ wf[r] = NewWorkflow("none")
      /\ \A r \in Runs, c \in Calls : action[r][c] = NoAction /\ effects[r][c] = 0
  BY DEF AgentInit
<1>2. /\ NewWorkflow("none") \in Workflows /\ NewWorkflow("none").pc = "none"
      /\ NewWorkflow("none").ran = {} /\ NewWorkflow("none").asks = {}
  BY NewWorkflowRow DEF AgentPC
<1>3. Created = {} /\ \A r \in Runs : Asked(r) = {}
  BY <1>1 DEF Created, Asked, NoAction
<1>4. NoAction \in Actions /\ NoAction.status = "NONE" /\ NoAction.decision = "NONE"
  BY DEF NoAction, Actions, ActionStatus
<1>5. AgentTypeOK
  <2>1. [status |-> "NONE", parent |-> NoRun, history |-> FALSE] \in RunRows
    BY DEF RunRows, RunStatus
  <2>2. run \in [Runs -> RunRows] /\ wf \in [Runs -> Workflows] /\ action \in [Runs -> [Calls -> Actions]]
    BY <1>2, <1>4, <2>1 DEF AgentInit
  <2>3. /\ turn \in [Turns -> RunStatus] /\ effects \in [Runs -> [Calls -> Nat]]
        /\ created \in Seq(Runs) /\ messages \in Seq(MessageRows)
    BY DEF AgentInit, RunStatus
  <2>4. conversation \in ConversationStatus /\ agentFaults \in 0..MaxAgentFaults
    BY <1>1, AgentAssumption DEF ConversationStatus
  <2> QED BY <2>2, <2>3, <2>4 DEF AgentTypeOK, RunRows, Workflows, SeenRows, Actions, MessageRows
<1>6. CreatedInv
  BY <1>1, <1>2, <1>3 DEF CreatedInv
<1>7. AskedInv
  BY <1>1, <1>2, <1>3 DEF AskedInv
<1>8. ActionInv
  BY <1>1, <1>4 DEF ActionInv
<1>9. ToolInv
  BY <1>1, <1>2 DEF ToolInv
<1> QED BY <1>5, <1>6, <1>7, <1>8, <1>9 DEF AgentInv

\* Every step keeps the invariant.
LEMMA AgentSteps == ASSUME AgentInv, [AgentNext]_agentVars PROVE AgentInv'
<1>1. CASE UNCHANGED agentVars
  <2>1. /\ conversation' = conversation /\ turn' = turn /\ run' = run /\ created' = created
        /\ action' = action /\ messages' = messages /\ effects' = effects /\ wf' = wf
        /\ agentFaults' = agentFaults
    BY <1>1 DEF agentVars
  <2>2. /\ Created' = Created
        /\ \A s : Asked(s)' = Asked(s) /\ Pending(s)' = Pending(s) /\ Approved(s)' = Approved(s)
    BY <2>1 DEF Created, Asked, Pending, Approved
  <2>3. AgentTypeOK'
    BY <2>1 DEF AgentInv, AgentTypeOK
  <2>4. CreatedInv'
    BY <2>1, <2>2 DEF AgentInv, CreatedInv
  <2>5. AskedInv'
    BY <2>1, <2>2 DEF AgentInv, AskedInv
  <2>6. ActionInv'
    BY <2>1 DEF AgentInv, ActionInv
  <2>7. ToolInv'
    BY <2>1, <2>2 DEF AgentInv, ToolInv
  <2> QED BY <2>3, <2>4, <2>5, <2>6, <2>7 DEF AgentInv
<1>2. CASE UserStep
  BY <1>2, SubmitTurnKeeps, DecideKeeps, DecideLastKeeps DEF UserStep
<1>3. ASSUME NEW r \in Runs, AgentStep(r)
      PROVE  AgentInv'
  BY <1>3, ReadingKeeps, StatusCommitKeeps, ToolKeeps, ToolCommitKeeps, AnswerKeeps,
     PersistActionsKeeps DEF AgentStep
<1>4. ASSUME NEW r \in Runs, AgentRestarts(r) \/ AgentReplays(r) \/ AgentRaises(r)
      PROVE  AgentInv'
  BY <1>4, FaultKeeps
<1> QED BY <1>1, <1>2, <1>3, <1>4 DEF AgentNext

\* The invariant holds in every state.
THEOREM AgentInvariant == AgentSpec => []AgentInv
<1>1. AgentInit => AgentInv
  BY AgentStarts
<1>2. AgentInv /\ [AgentNext]_agentVars => AgentInv'
  BY AgentSteps
<1> QED BY <1>1, <1>2, PTL DEF AgentSpec

\* The rows of conversations, turns, runs and action requests have values their columns hold.
THEOREM AgentTyped == AgentSpec => []AgentTypeOK
<1>1. AgentInv => AgentTypeOK
  BY DEF AgentInv
<1> QED BY <1>1, AgentInvariant, PTL

\* What users approved takes effect once, whatever workers die, tools fail and steps repeat.
THEOREM ApprovedOnce == AgentSpec => []EffectsAreApprovedOnce
<1>1. AgentInv => EffectsAreApprovedOnce
  BY DEF AgentInv, ActionInv, ToolInv, EffectsAreApprovedOnce
<1> QED BY <1>1, AgentInvariant, PTL

\* A run is resumed once, when all its actions are decided, and a conversation that waits has
\* a decision that a user can take.
THEOREM DecisionsResumed == AgentSpec => []DecidedIsResumed
<1>1. AgentInv => DecidedIsResumed
  BY DEF AgentInv, CreatedInv, AskedInv, DecidedIsResumed
<1> QED BY <1>1, AgentInvariant, PTL
================================================================================

-------------------------------- MODULE Revisions --------------------------------
(***************************************************************************)
(* The two kinds of documents that keep all their versions: the Matter     *)
(* Definition of a matter (app/matter_definitions.py,                      *)
(* app/routers/matter_definitions.py, and the agent's draft edit in        *)
(* app/agent_runtime.py) and an agent (app/routers/agents.py).  Each       *)
(* command locks the row that counts the versions, checks, and appends a   *)
(* version or publishes one.                                               *)
(***************************************************************************)
EXTENDS Naturals, Sequences

CONSTANTS
    Editors,     \* the commands that may be in flight at a time
    MaxVersions  \* bound on the versions of each document

ASSUME RevisionsAssumption == MaxVersions \in Nat \ {0}

VARIABLES
    definition,  \* the Matter Definition: current revision, 0 without a row; published; rows
    agent,       \* the agent: current and published version, status, rows
    editors      \* editors[e]: the command in slot e, between its lock and its commit

revisionVars == <<definition, agent, editors>>

IdleEditor == [pc |-> "idle"]
NoDefinition == [current |-> 0, published |-> 0, rows |-> <<>>]
NewAgent == [current |-> 1, published |-> 0, status |-> "ACTIVE", rows |-> <<"DRAFT">>]

RevisionsInit ==
    /\ definition = NoDefinition
    /\ agent = NewAgent
    /\ editors = [e \in Editors |-> IdleEditor]

MutantRowFree(pcs) == TRUE

\* SELECT ... FOR UPDATE waits for the commands that hold the row.
RowFree(pcs) == \A e \in Editors : editors[e].pc \notin pcs

Begin(e, command) == editors[e].pc = "idle" /\ editors' = [editors EXCEPT ![e] = command]
End(e) == editors' = [editors EXCEPT ![e] = IdleEditor]

\* An edit of a user or of an approved tool call names the revision it is based on
\* (0 if none): the current one.  Without a row there is nothing to lock.
BeginEdit(e, based) ==
    /\ definition.current # 0 => RowFree({"edit"})
    /\ definition.current < MaxVersions
    /\ based \in {0, definition.current}
    /\ Begin(e, [pc |-> IF definition.current = 0 THEN "first" ELSE "edit",
                 based |-> based, seen |-> definition.current])
    /\ UNCHANGED <<definition, agent>>

\* The revision is committed; of two first ones the second violates the row's key.
CommitEdit(e) ==
    /\ editors[e].pc \in {"first", "edit"}
    /\ definition' = IF editors[e].pc = "first" /\ definition.current # 0 THEN definition
                     ELSE [definition EXCEPT !.current = editors[e].seen + 1,
                                             !.rows = Append(@, [number |-> editors[e].seen + 1,
                                                                 based |-> editors[e].based])]
    /\ End(e)
    /\ UNCHANGED agent

PublishRevision(n) ==
    /\ RowFree({"edit"})
    /\ n \in 1..Len(definition.rows)
    /\ definition' = [definition EXCEPT !.published = n]
    /\ UNCHANGED <<agent, editors>>

\* The row of the agent is locked and read.
LockAgent(e, command) ==
    /\ RowFree({"version", "publish"})
    /\ agent.status = "ACTIVE"
    /\ Begin(e, command)
    /\ UNCHANGED <<definition, agent>>

BeginVersion(e) ==
    agent.current < MaxVersions /\ LockAgent(e, [pc |-> "version", seen |-> agent.current])

BeginPublish(e, n) ==
    n \in 1..Len(agent.rows) /\ LockAgent(e, [pc |-> "publish", version |-> n, prior |-> agent.published])

CommitVersion(e) ==
    /\ editors[e].pc = "version"
    /\ agent' = [agent EXCEPT !.current = editors[e].seen + 1, !.rows = Append(@, "DRAFT")]
    /\ End(e)
    /\ UNCHANGED definition

\* The version that was published is retired.
CommitPublish(e) ==
    /\ editors[e].pc = "publish"
    /\ agent' = [agent EXCEPT
            !.published = editors[e].version,
            !.rows = [i \in DOMAIN @ |-> IF i = editors[e].version THEN "PUBLISHED"
                                         ELSE IF i = editors[e].prior THEN "RETIRED" ELSE @[i]]]
    /\ End(e)
    /\ UNCHANGED definition

UpdateAgent(status) ==
    /\ RowFree({"version", "publish"})
    /\ agent' = [agent EXCEPT !.status = status]
    /\ UNCHANGED <<definition, editors>>

RevisionsNext ==
    \/ \E e \in Editors : \/ \E based \in 0..MaxVersions : BeginEdit(e, based)
                          \/ \E n \in 1..MaxVersions : BeginPublish(e, n)
                          \/ BeginVersion(e) \/ CommitEdit(e) \/ CommitVersion(e) \/ CommitPublish(e)
    \/ \E n \in 1..MaxVersions : PublishRevision(n)
    \/ \E status \in {"ACTIVE", "SUSPENDED"} : UpdateAgent(status)

RevisionsSpec == RevisionsInit /\ [][RevisionsNext]_revisionVars

(***************************************************************************)
(* Properties.                                                             *)
(***************************************************************************)
RevisionsTypeOK ==
    /\ definition.current = Len(definition.rows) /\ definition.published \in 0..definition.current
    /\ agent.current = Len(agent.rows) /\ agent.published \in 0..agent.current

\* No edit is lost: each revision has the next number, and one that names the
\* revision it is based on follows it ("Matter Definition changed; current revision
\* is ..." refuses it otherwise); and the version of an agent that conversations
\* start with is the only published one, whoever publishes at the same time.
HistoriesAreSerial ==
    /\ \A i \in DOMAIN definition.rows :
          /\ definition.rows[i].number = i
          /\ definition.rows[i].based \in {0, i - 1}
    /\ \A i \in DOMAIN agent.rows : agent.rows[i] = "PUBLISHED" <=> i = agent.published
=================================================================================

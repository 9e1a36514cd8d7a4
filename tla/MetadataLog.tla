------------------------------ MODULE MetadataLog ------------------------------
(***************************************************************************)
(* The metadata events of one document and one field, and the projection   *)
(* of its current values (app/document_metadata.py,                        *)
(* app/metadata_definitions.py and their routers).                         *)
(*                                                                         *)
(* Events are only appended.  A command reads the definition of the field, *)
(* waits for the row of the document, validates against what it has read,  *)
(* appends its events, resolves the whole log and replaces the current     *)
(* rows, all in one transaction.  The definition may change between the    *)
(* read and the lock; a change of a definition resolves nothing anew.      *)
(* Events are numbered in the order of their creation, which the lock of   *)
(* the document makes the order of their times.                            *)
(***************************************************************************)
EXTENDS Naturals, Sequences, FiniteSets, SequencesExt

CONSTANTS
    Authors,        \* the commands that may be in flight at a time
    FieldValues,    \* the values the field may be given
    Policies,       \* the pairs of an assertion and a resolution policy in use
    FirstValues,    \* the values its definition is created with
    NoFieldValue,   \* an event without a value
    MaxEvents,      \* bound on the length of the log
    MaxRedefinitions \* bound on the changes of the definition

ASSUME MetadataAssumption ==
    /\ Policies \subseteq {"IMMEDIATE", "REQUIRES_CONFIRMATION"}
                     \X {"EXPLICIT_ONLY", "LATEST_VALID", "HUMAN_PRECEDENCE"}
    /\ IsFiniteSet(FieldValues) /\ FirstValues \subseteq FieldValues /\ NoFieldValue \notin FieldValues
    /\ MaxEvents \in Nat /\ MaxRedefinitions \in Nat

VARIABLES
    field,        \* the row of the definition
    log,          \* the committed events
    current,      \* the committed projection, with the definition it was resolved by
    authors,      \* authors[a]: the command in slot a, between its steps
    redefinitions

metadataVars == <<field, log, current, authors, redefinitions>>

ValueOperations == {"SET", "ADD"}
AssertionOperations == ValueOperations \cup {"CLEAR"}
TargetOperations == {"REMOVE", "CONFIRM", "REJECT"}
Cardinalities == {"SINGLE", "MULTIPLE"}

Event(operation, value, source, target, supersedes) ==
    [operation |-> operation, value |-> value, source |-> source,
     target |-> target, supersedes |-> supersedes]

(***************************************************************************)
(* Resolution of a log l under a definition f (derive_event_states,        *)
(* resolve_field): pure functions of the events.                           *)
(***************************************************************************)
Targets(l, operation) == {l[i].target : i \in {j \in DOMAIN l : l[j].operation = operation}}

Rejected(l) == Targets(l, "REJECT")

Confirmed(l) == Targets(l, "CONFIRM") \ Rejected(l)

\* An event is superseded even by an event that is itself rejected.
Superseded(l) == {l[i].supersedes : i \in DOMAIN l} \ {0}

Removed(l) == Targets(l, "REMOVE")

Standing(l) ==
    {i \in DOMAIN l : l[i].operation \in AssertionOperations}
        \ (Rejected(l) \cup Superseded(l) \cup Removed(l))

Eligible(l, f) == {i \in Standing(l) : f.assertion = "IMMEDIATE" \/ i \in Confirmed(l)}

LatestClear(l, f) == Max({0} \cup {i \in Eligible(l, f) : l[i].operation = "CLEAR"})

Invalidated(l, f) ==
    Removed(l) \cup {i \in DOMAIN l : l[i].operation \in ValueOperations /\ i < LatestClear(l, f)}

Pending(l, f) ==
    {i \in Standing(l) \ Invalidated(l, f) :
        f.assertion = "REQUIRES_CONFIRMATION" /\ i \notin Confirmed(l)}

Candidates(l, f) ==
    {i \in Eligible(l, f) \ Invalidated(l, f) : l[i].operation \in ValueOperations}

\* One value for each set of events that agree; the latest event is its source.
Grouped(l, events) ==
    {[source |-> Max(s), support |-> s] :
        s \in {{i \in events : l[i].value = v} : v \in {l[i].value : i \in events}}}

Alone(events) == {[source |-> i, support |-> {i}] : i \in events}

Human(l, events) ==
    LET human == {i \in events : l[i].source = "HUMAN"}
    IN  IF human = {} THEN events ELSE human

Resolve(l, f) ==
    LET events == Candidates(l, f)
        Resolution(state, values, conflicting) ==
            [state |-> state, values |-> values, pending |-> Pending(l, f),
             conflicting |-> conflicting, by |-> f]
    IN  CASE events = {} ->
                Resolution(IF Pending(l, f) = {} THEN "EMPTY" ELSE "PENDING", Alone(Pending(l, f)), {})
          [] events # {} /\ f.cardinality = "MULTIPLE" -> Resolution("VALUE", Grouped(l, events), {})
          [] events # {} /\ f.cardinality = "SINGLE" /\ f.resolution = "LATEST_VALID" ->
                Resolution("VALUE", Alone({Max(events)}), {})
          [] events # {} /\ f.cardinality = "SINGLE" /\ f.resolution = "HUMAN_PRECEDENCE" ->
                Resolution("VALUE", Alone({Max(Human(l, events))}), {})
          [] OTHER ->
                IF Cardinality(Grouped(l, events)) = 1
                THEN Resolution("VALUE", Grouped(l, events), {})
                ELSE Resolution("CONFLICTED", Grouped(l, events), events)

\* What the history of the field shows of an event (_event_reads).
EffectiveStatus(l, f, i) ==
    IF i \in Invalidated(l, f) THEN "INVALIDATED"
    ELSE IF i \in Rejected(l) THEN "REJECTED"
    ELSE IF i \in Superseded(l) THEN "SUPERSEDED" ELSE "ACTIVE"

(***************************************************************************)
(* Definitions.                                                            *)
(***************************************************************************)
NoField == [cardinality |-> "SINGLE", assertion |-> "IMMEDIATE", resolution |-> "EXPLICIT_ONLY",
            status |-> "NONE", known |-> {}, allowed |-> {}]
NoResolution == [state |-> "EMPTY", values |-> {}, pending |-> {}, conflicting |-> {}, by |-> NoField]
IdleAuthor == [pc |-> "idle"]

MetadataInit ==
    /\ field = NoField /\ log = <<>> /\ current = NoResolution
    /\ authors = [a \in Authors |-> IdleAuthor]
    /\ redefinitions = 0

CreateDefinition(cardinality, assertion, resolution) ==
    /\ field.status = "NONE"
    /\ field' = [cardinality |-> cardinality, assertion |-> assertion, resolution |-> resolution,
                 status |-> "ACTIVE", known |-> FirstValues, allowed |-> FirstValues]
    /\ UNCHANGED <<log, current, authors, redefinitions>>

\* The foreign key of an uncommitted event holds the row of the definition.
Redefine ==
    /\ field.status # "NONE"
    /\ \A a \in Authors : authors[a].pc # "written"
    /\ redefinitions < MaxRedefinitions /\ redefinitions' = redefinitions + 1
    /\ UNCHANGED <<log, current, authors>>

UpdateDefinition(assertion, resolution, status) ==
    /\ Redefine
    /\ field' = [field EXCEPT !.assertion = assertion, !.resolution = resolution, !.status = status]

\* An enum value is added or deactivated for good: no request makes it active
\* again.  Relabelling one changes nothing that is kept here.
AddEnumValue(v) ==
    /\ v \notin field.known /\ Redefine
    /\ field' = [field EXCEPT !.known = @ \cup {v}, !.allowed = @ \cup {v}]

DeactivateEnumValue(v) ==
    /\ v \in field.known /\ Redefine
    /\ field' = [field EXCEPT !.allowed = @ \ {v}]

(***************************************************************************)
(* Commands.                                                               *)
(***************************************************************************)
MutantDocumentFree(a) == TRUE

\* Nobody else holds the row of the document.
DocumentFree(a) == \A b \in Authors \ {a} : authors[b].pc # "written"

\* A request or a topic job reads the definition.
ReadDefinition(a) ==
    /\ authors[a].pc = "idle" /\ field.status # "NONE"
    /\ authors' = [authors EXCEPT ![a] = [pc |-> "read", field |-> field]]
    /\ UNCHANGED <<field, log, current, redefinitions>>

\* What the shape of a request and its relations to other events must be.
ValidEvent(f, e) ==
    /\ f.status = "ACTIVE"
    /\ f.cardinality = "SINGLE" => e.operation \notin {"ADD", "REMOVE"}
    /\ f.cardinality = "MULTIPLE" => e.operation # "SET"
    /\ IF e.operation \in ValueOperations THEN e.value \in f.allowed ELSE e.value = NoFieldValue
    /\ IF e.operation \in TargetOperations
       THEN /\ e.target \in DOMAIN log
            /\ e.operation = "REMOVE" => log[e.target].operation = "ADD"
            /\ log[e.target].operation \in AssertionOperations
       ELSE e.target = 0
    /\ e.supersedes # 0 => /\ e.operation = "SET" /\ e.supersedes \in DOMAIN log
                           /\ log[e.supersedes].operation \in {"SET", "CLEAR"}

\* The lock is taken, the events are validated and flushed, the field is resolved.
Write(a, events) ==
    /\ authors[a].pc = "read" /\ DocumentFree(a)
    /\ Len(log) + Len(events) <= MaxEvents
    /\ authors' = [authors EXCEPT ![a] =
            [pc |-> "written", events |-> events, result |-> Resolve(log \o events, authors[a].field)]]
    /\ UNCHANGED <<field, log, current, redefinitions>>

AddEvent(a, e) == ValidEvent(authors[a].field, e) /\ Write(a, <<e>>)

\* The events by which a topic job gives a field its values (apply_metadata_values).
Replacement(replace, values) ==
    (IF replace THEN <<Event("CLEAR", NoFieldValue, "AGENT", 0, 0)>> ELSE <<>>)
        \o [i \in 1..Len(values) |-> Event("ADD", values[i], "AGENT", 0, 0)]

ApplyValues(a, values, replace) ==
    /\ authors[a].field.cardinality = "MULTIPLE"
    /\ Replacement(replace, values) # <<>>
    /\ \A e \in ToSet(Replacement(replace, values)) : ValidEvent(authors[a].field, e)
    /\ Write(a, Replacement(replace, values))

\* The transaction commits the events and the rows of their projection; the upsert
\* operation it creates is SearchProjection's ChangeDocument.
CommitEvents(a) ==
    /\ authors[a].pc = "written"
    /\ log' = log \o authors[a].events
    /\ current' = authors[a].result
    /\ authors' = [authors EXCEPT ![a] = IdleAuthor]
    /\ UNCHANGED <<field, redefinitions>>

\* The request is refused, or its process dies and the transaction is rolled back.
Abandon(a) ==
    /\ authors[a].pc # "idle"
    /\ authors' = [authors EXCEPT ![a] = IdleAuthor]
    /\ UNCHANGED <<field, log, current, redefinitions>>

AuthorStep(a) ==
    \/ ReadDefinition(a) \/ CommitEvents(a) \/ Abandon(a)
    \/ /\ authors[a].pc = "read"
       /\ \/ \E o \in AssertionOperations \cup TargetOperations, v \in FieldValues \cup {NoFieldValue},
                t, s \in 0..Len(log) : AddEvent(a, Event(o, v, "HUMAN", t, s))
          \/ \E values \in SetToSeqs(FieldValues) \cup {<<v>> : v \in FieldValues} \cup {<<>>},
                replace \in BOOLEAN : ApplyValues(a, values, replace)

MetadataNext ==
    \/ \E c \in Cardinalities, p \in Policies : CreateDefinition(c, p[1], p[2])
    \/ \E p \in Policies, s \in {"ACTIVE", "SUSPENDED"} : UpdateDefinition(p[1], p[2], s)
    \/ \E v \in FieldValues : AddEnumValue(v) \/ DeactivateEnumValue(v)
    \/ \E a \in Authors : AuthorStep(a)

MetadataSpec == MetadataInit /\ [][MetadataNext]_metadataVars

(***************************************************************************)
(* Properties.                                                             *)
(***************************************************************************)
MetadataTypeOK ==
    /\ field.status # "NONE" => <<field.assertion, field.resolution>> \in Policies
    /\ field.allowed \subseteq field.known
    /\ \A i \in DOMAIN log : log[i].target < i /\ log[i].supersedes < i
    /\ current.state \in {"EMPTY", "PENDING", "VALUE", "CONFLICTED"}
    /\ \A a \in Authors : authors[a].pc \in {"idle", "read", "written"}

\* README.md: events "with a transactionally maintained current-value projection":
\* the stored projection is the one of the whole log, under the definition that its
\* last author read, however the commands of several authors interleave.  And what it
\* shows as a value stands: no event that supports it was ever rejected, removed or
\* superseded, or precedes a clear that counts; under REQUIRES_CONFIRMATION each was
\* confirmed; and the history calls it active.
ProjectionStands ==
    /\ log # <<>> => current = Resolve(log, current.by)
    /\ current.state \in {"VALUE", "CONFLICTED"} =>
          \A v \in current.values : \A i \in v.support :
              /\ log[i].value = log[v.source].value /\ i <= v.source
              /\ EffectiveStatus(log, current.by, i) = "ACTIVE"
              /\ \A k \in DOMAIN log : /\ log[k].operation \in {"REJECT", "REMOVE"} => log[k].target # i
                                       /\ log[k].supersedes # i
              /\ current.by.assertion = "REQUIRES_CONFIRMATION" =>
                      \E k \in DOMAIN log : log[k].operation = "CONFIRM" /\ log[k].target = i
              /\ \A k \in DOMAIN log :
                      (k > i /\ log[k].operation = "CLEAR" /\ current.by.assertion = "IMMEDIATE")
                          => \E j \in DOMAIN log : (log[j].operation = "REJECT" /\ log[j].target = k) \/ log[j].supersedes = k
===============================================================================

----------------------------- MODULE TextProcessing -----------------------------
(***************************************************************************)
(* The runs that derive normalized text from the items of a collection     *)
(* (artifact_service/text_processing.py, derived.py, the text-processing   *)
(* routes of artifact_service/api.py, and the workflow that executes a     *)
(* run), and what a reader of the text then gets (get_embedding_text_source *)
(* of app/artifact_gateway.py).                                            *)
(*                                                                         *)
(* A text is its content hash, a number that grows when a better source is *)
(* uploaded; rules are their configuration hash.  The rows of one item are *)
(* one NORMALIZED_TEXT artifact for each derivation key (source, rules).   *)
(***************************************************************************)
EXTENDS Naturals, FiniteSets

CONSTANTS
    TextItems,        \* the items of the collection
    TextRuns,         \* identifiers of the processing runs
    NoTextRun,        \* active_text_processing_run_id is null
    RuleSets,         \* configurations that a profile may hold
    DefaultRules,     \* the rules without a profile row
    MaxSources,       \* bound on the sources uploaded for each item
    MaxTextAttempts,  \* attempts of the step "process_collection_text"
    MaxTextFaults     \* bound on crashes and on errors of the storage

ASSUME TextAssumption ==
    /\ DefaultRules \in RuleSets
    /\ NoTextRun \notin TextRuns
    /\ MaxSources \in Nat /\ MaxTextAttempts \in Nat \ {0} /\ MaxTextFaults \in Nat

VARIABLES
    texts,       \* texts[i]: the newest source of item i, 0 without text, ABSENT without a row
    rules,       \* custom_rules of the collection's profile
    textRuns,    \* the rows of the runs
    workers,     \* workers[r]: the workflow of run r
    normalized,  \* the NORMALIZED_TEXT rows
    active,      \* active_text_processing_run_id of the collection
    textFaults   \* crashes and storage errors so far

textVars == <<texts, rules, textRuns, workers, normalized, active, textFaults>>

Absent == MaxSources + 1
Present == {i \in TextItems : texts[i] # Absent}

RunOutcomes == {"created", "reused", "skipped", "failed"}
NoOutcomes == [o \in RunOutcomes |-> {}]
NoRunRow == [status |-> "NONE", rules |-> DefaultRules, processed |-> 0, outcomes |-> NoOutcomes]
ActiveRunStatus == {"QUEUED", "RUNNING"}
CompletedRunStatus == {"COMPLETED", "COMPLETED_WITH_ERRORS"}

NormalizedRow == [item : TextItems, source : 1..MaxSources, rules : RuleSets, run : TextRuns]
IdleWorker == [pc |-> "none", left |-> {}, item |-> {}, attempt |-> 0]

TextInit ==
    /\ texts \in [TextItems -> {0, 1, Absent}]
    /\ rules = DefaultRules
    /\ textRuns = [r \in TextRuns |-> NoRunRow]
    /\ workers = [r \in TextRuns |-> IdleWorker]
    /\ normalized = {}
    /\ active = NoTextRun
    /\ textFaults = 0

Fault == textFaults < MaxTextFaults /\ textFaults' = textFaults + 1

-----------------------------------------------------------------------------
\* An item, or a better source of its text, is uploaded.
UploadText(i) ==
    /\ \/ texts[i] = Absent /\ \E source \in {0, 1} : texts' = [texts EXCEPT ![i] = source]
       \/ texts[i] < MaxSources /\ texts' = [texts EXCEPT ![i] = @ + 1]
    /\ UNCHANGED <<rules, textRuns, workers, normalized, active, textFaults>>

UpdateProfile(custom) ==
    /\ rules' = custom
    /\ UNCHANGED <<texts, textRuns, workers, normalized, active, textFaults>>

NoActiveRun == \A r \in TextRuns : textRuns[r].status \notin ActiveRunStatus

\* The run is committed and then enqueued in the other database; if that call fails the
\* run is FAILED, whether or not the workflow was recorded.
StartRun(r) ==
    /\ textRuns[r].status = "NONE"
    /\ NoActiveRun
    /\ \/ /\ textRuns' = [textRuns EXCEPT ![r] = [NoRunRow EXCEPT !.status = "QUEUED", !.rules = rules]]
          /\ workers' = [workers EXCEPT ![r].pc = "begin"]
          /\ UNCHANGED textFaults
       \/ /\ textRuns' = [textRuns EXCEPT ![r] = [NoRunRow EXCEPT !.status = "FAILED", !.rules = rules]]
          /\ \E pc \in {"none", "begin"} : workers' = [workers EXCEPT ![r].pc = pc]
          /\ Fault
    /\ UNCHANGED <<texts, rules, normalized, active>>

\* The workflow starts over in the run's first transaction: the counters are reset.
BeginRun(r) ==
    /\ workers[r].pc = "begin"
    /\ IF textRuns[r].status \in CompletedRunStatus
       THEN /\ workers' = [workers EXCEPT ![r] = IdleWorker]
            /\ UNCHANGED textRuns
       ELSE /\ textRuns' = [textRuns EXCEPT ![r].status = "RUNNING", ![r].processed = 0,
                                            ![r].outcomes = NoOutcomes]
            /\ workers' = [workers EXCEPT ![r] = [pc |-> "list", left |-> {}, item |-> {},
                                                  attempt |-> @.attempt]]
    /\ UNCHANGED <<texts, rules, normalized, active, textFaults>>

\* The identifiers of the items, read after the counters were committed.
ListItems(r) ==
    /\ workers[r].pc = "list"
    /\ workers' = [workers EXCEPT ![r].pc = "items", ![r].left = Present]
    /\ UNCHANGED <<texts, rules, textRuns, normalized, active, textFaults>>

-----------------------------------------------------------------------------
\* Mutant: the key of the derivation leaves out the configuration.
MutantDerived(r, i) == {row \in normalized : row.item = i /\ row.source = texts[i]}

\* find_derived_artifact: the row of the item with the derivation key of the run.
Derived(r, i) ==
    {row \in normalized : row.item = i /\ row.source = texts[i] /\ row.rules = textRuns[r].rules}

Count(r, i, outcome) ==
    /\ textRuns' = [textRuns EXCEPT ![r].processed = @ + 1, ![r].outcomes[outcome] = @ \union {i}]
    /\ workers' = [workers EXCEPT ![r].left = @ \ {i}, ![r].item = {}]

\* The transaction of the next item: without a source it is skipped, a row with the key
\* of the derivation is reused, else the text has to be stored.
ReadItem(r, i) ==
    /\ workers[r].pc = "items"
    /\ workers[r].item = {}
    /\ i \in workers[r].left
    /\ \/ texts[i] = 0 /\ Count(r, i, "skipped")
       \/ texts[i] # 0 /\ Derived(r, i) # {} /\ Count(r, i, "reused")
       \/ /\ texts[i] # 0 /\ Derived(r, i) = {}
          /\ workers' = [workers EXCEPT ![r].item = {[item |-> i, source |-> texts[i],
                                                      rules |-> textRuns[r].rules, run |-> r]}]
          /\ UNCHANGED textRuns
    /\ UNCHANGED <<texts, rules, normalized, active, textFaults>>

\* uq_item_artifact_derivation
IsKnown(row) == \E other \in normalized : [other EXCEPT !.run = row.run] = row

\* The new artifact is committed together with the run's counters.
StoreText(r) ==
    \E row \in workers[r].item :
        /\ ~IsKnown(row)
        /\ normalized' = normalized \union {row}
        /\ Count(r, row.item, "created")
        /\ UNCHANGED <<texts, rules, active, textFaults>>

\* An error of the storage or of a rule is the item's own.
FailItem(r, i) ==
    /\ workers[r].pc = "items"
    /\ i \in workers[r].left /\ texts[i] # 0
    /\ \A row \in workers[r].item : row.item = i
    /\ Fault
    /\ Count(r, i, "failed")
    /\ UNCHANGED <<texts, rules, normalized, active>>

\* The session that violated the key cannot commit, or the connection is lost: the step
\* raises, and after its last attempt the step "fail" follows.
Raise(r) ==
    /\ workers' = [workers EXCEPT ![r] =
            IF workers[r].attempt + 1 < MaxTextAttempts
            THEN [IdleWorker EXCEPT !.pc = "begin", !.attempt = workers[r].attempt + 1]
            ELSE [IdleWorker EXCEPT !.pc = "fail"]]
    /\ UNCHANGED <<texts, rules, textRuns, normalized, active>>

StepRaises(r) ==
    /\ workers[r].pc \in {"begin", "list", "items"}
    /\ \/ Fault
       \/ (\E row \in workers[r].item : IsKnown(row)) /\ UNCHANGED textFaults
    /\ Raise(r)

\* The process dies: recovery executes the step again, as the same attempt.
CrashRun(r) ==
    /\ workers[r].pc \in {"list", "items"}
    /\ Fault
    /\ workers' = [workers EXCEPT ![r] = [IdleWorker EXCEPT !.pc = "begin", !.attempt = workers[r].attempt]]
    /\ UNCHANGED <<texts, rules, textRuns, normalized, active>>

\* The process may die after the commit and before DBOS records the step, which is then
\* executed again.
CompleteTextRun(r) ==
    /\ workers[r].pc = "items"
    /\ workers[r].left = {}
    /\ textRuns' = [textRuns EXCEPT ![r].status =
            IF textRuns[r].outcomes["failed"] = {} THEN "COMPLETED" ELSE "COMPLETED_WITH_ERRORS"]
    /\ active' = r
    /\ \/ workers' = [workers EXCEPT ![r] = IdleWorker] /\ UNCHANGED textFaults
       \/ workers' = [workers EXCEPT ![r] = [IdleWorker EXCEPT !.pc = "begin", !.attempt = workers[r].attempt]]
          /\ Fault
    /\ UNCHANGED <<texts, rules, normalized>>

FailRun(r) ==
    /\ workers[r].pc = "fail"
    /\ textRuns' = [textRuns EXCEPT ![r].status = "FAILED"]
    /\ workers' = [workers EXCEPT ![r] = IdleWorker]
    /\ UNCHANGED <<texts, rules, normalized, active, textFaults>>

TextNext ==
    \/ \E i \in TextItems : UploadText(i)
    \/ \E custom \in RuleSets : UpdateProfile(custom)
    \/ \E r \in TextRuns : \/ StartRun(r) \/ BeginRun(r) \/ ListItems(r) \/ StoreText(r)
                           \/ StepRaises(r) \/ CrashRun(r) \/ CompleteTextRun(r) \/ FailRun(r)
                           \/ \E i \in TextItems : ReadItem(r, i) \/ FailItem(r, i)

TextSpec == TextInit /\ [][TextNext]_textVars

-----------------------------------------------------------------------------
(***************************************************************************)
(* Properties.                                                             *)
(***************************************************************************)
TextTypeOK ==
    /\ texts \in [TextItems -> 0..Absent]
    /\ rules \in RuleSets
    /\ \A r \in TextRuns :
          /\ textRuns[r].status \in {"NONE", "FAILED"} \union ActiveRunStatus \union CompletedRunStatus
          /\ textRuns[r].outcomes \in [RunOutcomes -> SUBSET TextItems]
          /\ workers[r].item \subseteq NormalizedRow
    /\ normalized \subseteq NormalizedRow
    /\ active \in TextRuns \union {NoTextRun}

\* Whatever attempts, crashes and runs came before, a run without an error has for each
\* item that it did not skip a text that its own rules made of a source of the item; and
\* its counters count each item once ("Recompute counters from the full frozen collection
\* scope while deterministic artifact keys prevent duplicates").
CompletedTextIsOfItsRules ==
    \A r \in TextRuns : textRuns[r].status \in CompletedRunStatus =>
        LET out == textRuns[r].outcomes IN
        /\ \A i \in out["created"] \union out["reused"] :
               \E row \in normalized : row.item = i /\ row.rules = textRuns[r].rules
        /\ \A i \in TextItems : Cardinality({o \in RunOutcomes : i \in out[o]}) <= 1
        /\ textRuns[r].processed = Cardinality(UNION {out[o] : o \in RunOutcomes})

\* The items that get the text of the active run, as a reader selects it: rows of other
\* runs do not count, even if they have the same derivation key.
Preferred(i) == \E row \in normalized : row.item = i /\ row.run = active

\* Each item that the active run produced a text for is read as that text
\* ("Successful outputs become preferred; items without output continue to fall back").
SuccessfulOutputsArePreferred ==
    active # NoTextRun =>
        \A i \in textRuns[active].outcomes["created"] \union textRuns[active].outcomes["reused"] :
            Preferred(i)
=============================================================================

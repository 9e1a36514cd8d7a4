-------------------------------- MODULE MCImports --------------------------------
(* Imports, one kind at a time: "focus" is "faults" (one import of a matter    *)
(* with restarts, outages and a cancel request), "overlap" (two imports of one *)
(* collection at the same time, without them) or "client" (the import client,  *)
(* which fills a collection).                                                  *)
EXTENDS MatterImport, ImportClient

CONSTANTS c1, i2

VARIABLE focus

MCCollectionOf == [a \in Artifacts |-> c1]

\* An email, an attachment that an adapter gave no family, and another email.
MCSourceItems == <<[id |-> "e1", family |-> "f1", parent |-> NoParent],
                   [id |-> "a1", family |-> "f0", parent |-> "e1"],
                   [id |-> "e2", family |-> "f2", parent |-> NoParent]>>

MCInit ==
    /\ focus \in {"faults", "overlap", "client"}
    /\ ImportInit /\ UploadedStore /\ ClientInit

\* Only what users do and what fails is left out of a kind: no step of a workflow is.
MCNext ==
    /\ UNCHANGED focus
    /\ \/ /\ focus = "faults" /\ ImportNext /\ importJob'[i2].source = NoCollection
          /\ UNCHANGED clientVars
       \/ /\ focus = "overlap" /\ ImportNext
          /\ importFaults' = 0 /\ \A i \in Imports : cancel'[i].pc = "idle"
          /\ UNCHANGED clientVars
       \/ focus = "client" /\ ClientNext /\ UNCHANGED <<storeVars, importVars>>

MCSpec == MCInit /\ [][MCNext]_<<focus, storeVars, importVars, clientVars>> /\ ImportFairness

\* The rows have the types that the models declare.
ImportsTypeOK == ImportTypeOK /\ ClientTypeOK
=============================================================================

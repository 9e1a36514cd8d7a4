------------------------- MODULE CollectionsAndMatters -------------------------
(***************************************************************************)
(* Deletion of collections and import into matters, together.  Each works  *)
(* in its own database and reads the other's without a transaction around  *)
(* both: an import checks the status of the collection and then commits    *)
(* its job; a deletion marks the collection and then checks for jobs and   *)
(* documents.                                                              *)
(***************************************************************************)
EXTENDS CollectionDeletion, MatterImport

\* What has been uploaded has contents.
ASSUME ContentsAssumption == Blobs # {} /\ Hashes # {}

allVars == <<storeVars, deletionVars, importVars>>

\* The uploaded contents: one blob, which all artifacts share.
OneBlob ==
    LET b == CHOOSE x \in Blobs : TRUE
        h == CHOOSE x \in Hashes : TRUE
    IN  /\ blobRow = [x \in Blobs |-> IF x = b THEN h ELSE Unwritten]
        /\ object = {b}

ComposedInit == UploadedStore /\ OneBlob /\ DeletionInit /\ ImportInit

ComposedNext ==
    \/ DeletionNext /\ UNCHANGED importVars
    \/ ImportNext /\ UNCHANGED deletionVars

ComposedSpec == ComposedInit /\ [][ComposedNext]_allVars

-----------------------------------------------------------------------------
(* Properties.                                                              *)

\* The documents whose item no longer exists.
Dangling == {d \in docs : artifact[d.item] = Removed}

(***************************************************************************)
(* "Priv-View refuses to start deletion while the collection has an active *)
(* matter-import job or any documents linked into a matter"                *)
(* (collections.mdx): no matter document outlives its collection item.     *)
(***************************************************************************)
NoDanglingDocument == Dangling = {}

(***************************************************************************)
(* What the two unsynchronised checks do guarantee: only an import that    *)
(* has failed, or that a user asked to cancel, can leave a document        *)
(* without its item.                                                       *)
(***************************************************************************)
OnlyEndedImportsDangle ==
    \A d \in Dangling : importJob[d.by].status = "FAILED" \/ cancel[d.by].pc # "idle"

(***************************************************************************)
(* While an import that nobody cancels runs its batches, no item has been  *)
(* deleted from the collection that it imports from: its frozen selection  *)
(* stays valid.                                                            *)
(***************************************************************************)
RunningImportsAreWhole ==
    \A i \in Imports : importJob[i].status = "RUNNING" /\ cancel[i].pc = "idle" =>
        \A a \in Artifacts : CollectionOf[a] = importJob[i].source => artifact[a] # Removed
=============================================================================

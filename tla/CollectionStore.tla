--------------------------- MODULE CollectionStore ---------------------------
(***************************************************************************)
(* The rows that Priv-View's two services share.                           *)
(*                                                                         *)
(* The Artifact database holds collections, their items and the artifacts  *)
(* of those items (artifact_service/models.py); the Core database holds    *)
(* the matter documents that link to items by identifier, and the import   *)
(* jobs that create those links (app/models.py).  No foreign key and no    *)
(* transaction spans the two databases, which is what the modules that     *)
(* extend this one are about.                                              *)
(*                                                                         *)
(* An artifact slot stands for one upload: a native artifact stands for    *)
(* its CollectionItem row as well, because the two rows are inserted and   *)
(* deleted in the same transaction.  The other slots are the collection's  *)
(* source containers (CollectionArtifact rows).                            *)
(***************************************************************************)
EXTENDS Naturals, FiniteSets

CONSTANTS
    Collections,    \* collection identifiers
    Artifacts,      \* artifact identifiers, one for every upload
    ItemArtifacts,  \* those that are the native artifact of an item
    CollectionOf,   \* the collection that each artifact is uploaded into
    Blobs,          \* content blob identifiers, which are also storage keys
    Imports,        \* matter import job identifiers
    Matters,        \* matter identifiers
    NoCollection,   \* the collection of a job that does not exist yet
    NoMatter,       \* the matter of an import job that does not exist yet
    Absent,         \* an artifact that has not been uploaded yet
    Removed         \* an artifact whose row has been deleted

ASSUME StoreAssumption ==
    /\ IsFiniteSet(Artifacts)
    /\ IsFiniteSet(Blobs)
    /\ ItemArtifacts \subseteq Artifacts
    /\ CollectionOf \in [Artifacts -> Collections]
    /\ Absent \notin Blobs
    /\ Removed \notin Blobs
    /\ Absent # Removed
    /\ NoCollection \notin Collections
    /\ NoMatter \notin Matters

VARIABLES
    collection,     \* Artifact db: status of each collection, GONE without a row
    artifact,       \* Artifact db: content_blob_id of each artifact row
    selection,      \* Artifact db: frozen selection of each import job
    importJob,      \* Core db: the import jobs
    docs            \* Core db: the matter documents

storeVars == <<collection, artifact, selection, importJob, docs>>

CollectionStatus == {"OPEN", "DELETING", "GONE"}

ImportStatus ==
    {"NONE", "QUEUED", "SNAPSHOTTING", "RUNNING", "COMPLETED", "FAILED", "CANCELED"}

ActiveImportStatus == {"QUEUED", "SNAPSHOTTING", "RUNNING"}

\* An import job's counts: processed_count, added_count and duplicate_count.
ImportCounts == [processed : Nat, added : Nat, duplicate : Nat]
NoCounts == [processed |-> 0, added |-> 0, duplicate |-> 0]

NoImport == [status |-> "NONE", source |-> NoCollection, matter |-> NoMatter,
             frozen |-> FALSE, matched |-> 0, counts |-> NoCounts]
NoSelection == [row |-> FALSE, items |-> << >>, total |-> 0]

\* Empty databases, but for the collections.
StoreInit ==
    /\ collection = [c \in Collections |-> "OPEN"]
    /\ artifact = [a \in Artifacts |-> Absent]
    /\ selection = [i \in Imports |-> NoSelection]
    /\ importJob = [i \in Imports |-> NoImport]
    /\ docs = {}

\* The artifacts whose row is in the database.
Live == {a \in Artifacts : artifact[a] \in Blobs}

\* The CollectionItem rows of collection c.
ItemsOf(c) == {a \in Live \cap ItemArtifacts : CollectionOf[a] = c /\ collection[c] # "GONE"}

\* The source containers of collection c.
ContainersOf(c) == {a \in Live \ ItemArtifacts : CollectionOf[a] = c}

\* Mutant: an import in progress is not a blocker.
BlockedByDocuments(c) == \E d \in docs : CollectionOf[d.item] = c

(***************************************************************************)
(* What keeps a collection from being deleted: a matter document that was  *)
(* imported from it, or an import job on it that is not finished.          *)
(***************************************************************************)
Blocked(c) ==
    \/ \E d \in docs : CollectionOf[d.item] = c
    \/ \E i \in Imports : /\ importJob[i].status \in ActiveImportStatus
                          /\ importJob[i].source = c
=============================================================================

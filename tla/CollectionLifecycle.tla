------------------------- MODULE CollectionLifecycle -------------------------
(***************************************************************************)
(* What the deletion of a collection promises, without jobs, workflows,    *)
(* blobs or transactions.  Artifacts are stored in OPEN collections only.  *)
(* A collection that is being deleted may open again while it is whole;    *)
(* once it has lost an artifact it can only go on losing them, and it      *)
(* disappears together with the last ones.                                 *)
(***************************************************************************)
CONSTANTS Collections, Artifacts, CollectionOf

VARIABLES
    phase,      \* OPEN, DELETING or GONE
    stored,     \* the artifacts that exist
    lost        \* the artifacts that were deleted

lifecycleVars == <<phase, stored, lost>>

StoredIn(c) == {a \in stored : CollectionOf[a] = c}

LifecycleInit ==
    /\ phase = [c \in Collections |-> "OPEN"]
    /\ stored = {}
    /\ lost = {}

Store(a) ==
    /\ phase[CollectionOf[a]] = "OPEN"
    /\ a \notin stored \cup lost
    /\ stored' = stored \cup {a}
    /\ UNCHANGED <<phase, lost>>

Accept(c) ==
    /\ phase[c] = "OPEN"
    /\ phase' = [phase EXCEPT ![c] = "DELETING"]
    /\ UNCHANGED <<stored, lost>>

Reopen(c) ==
    /\ phase[c] = "DELETING"
    /\ \A a \in lost : CollectionOf[a] # c
    /\ phase' = [phase EXCEPT ![c] = "OPEN"]
    /\ UNCHANGED <<stored, lost>>

Lose(c, batch) ==
    /\ phase[c] = "DELETING"
    /\ batch \subseteq StoredIn(c)
    /\ stored' = stored \ batch
    /\ lost' = lost \cup batch
    /\ UNCHANGED phase

Vanish(c) ==
    /\ phase[c] = "DELETING"
    /\ stored' = stored \ StoredIn(c)
    /\ lost' = lost \cup StoredIn(c)
    /\ phase' = [phase EXCEPT ![c] = "GONE"]

Next ==
    \/ \E a \in Artifacts : Store(a)
    \/ \E c \in Collections :
          \/ Accept(c) \/ Reopen(c) \/ Vanish(c)
          \/ \E batch \in SUBSET Artifacts : Lose(c, batch)

Spec == LifecycleInit /\ [][Next]_lifecycleVars
=============================================================================

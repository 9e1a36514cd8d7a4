--------------------------- MODULE MCMatterImport ---------------------------
(* Instances of MatterImport for TLC: one collection.                       *)
EXTENDS MatterImport

CONSTANTS c1

MCCollectionOf == [a \in Artifacts |-> c1]
=============================================================================

---------------------- MODULE MCCollectionsAndMatters ----------------------
(* Instances of CollectionsAndMatters for TLC: one collection.              *)
EXTENDS CollectionsAndMatters

CONSTANTS c1

MCCollectionOf == [a \in Artifacts |-> c1]
=============================================================================

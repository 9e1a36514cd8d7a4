------------------------ MODULE MCCollectionDeletion ------------------------
(* Instances of CollectionDeletion for TLC.                                 *)
EXTENDS CollectionDeletion

CONSTANTS c1, c2,           \* two collections
          a1, a2,           \* items of c1
          s1,               \* a source container of c1
          a3                \* an item of c2

MCCollectionOf == [a \in Artifacts |-> IF a = a3 THEN c2 ELSE c1]
=============================================================================

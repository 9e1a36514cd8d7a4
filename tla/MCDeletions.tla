----------------------------- MODULE MCDeletions -----------------------------
(* Two instances of CollectionDeletion in one run: a behaviour stays within one *)
(* of them.                                                                     *)
EXTENDS MCCollectionDeletion, TLC

\* Contents, their hashes and requests differ in nothing but their names.
MCSymmetry == Permutations(Blobs) \cup Permutations(Hashes) \cup Permutations(Requests)

\* Two collections with three items, one request at a time and one fault.
Sharing ==
    /\ \E r \in Requests : \A q \in Requests \ {r} : request[q] = IdleRequest
    /\ faults <= 1
    /\ artifact[s1] = Absent
    /\ \A c \in Collections : upload[c] # NoUpload => upload[c].artifact # s1

\* One collection with an item and a source container, and two requests.
TwoRequests ==
    /\ artifact[a2] = Absent /\ artifact[a3] = Absent
    /\ upload[c1] # NoUpload => upload[c1].artifact # a2
    /\ upload[c2] = NoUpload /\ collection[c2] = "OPEN" /\ c2 \notin textRun
    /\ \A r \in Requests : request[r].target # c2
    /\ \A j \in Jobs : job[j].target # c2

Instances == Sharing \/ TwoRequests
=============================================================================

--------------------------------- MODULE Sublists ---------------------------------
(* What remains of a list when a query, or a cascade, leaves some of its elements. *)
EXTENDS Naturals, Sequences

\* What remains of a sequence when only the elements of T are kept.
Kept(ids, T) ==
    LET kept[i \in 0..Len(ids)] == IF i = 0 THEN <<>>
                                   ELSE IF ids[i] \in T THEN Append(kept[i - 1], ids[i]) ELSE kept[i - 1]
    IN  kept[Len(ids)]
=============================================================================

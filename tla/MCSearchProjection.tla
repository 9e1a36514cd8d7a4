--------------------------- MODULE MCSearchProjection ---------------------------
(* Schemas of one metadata field: an index that an earlier release created lacks *)
(* batch_ids, a change of the field's mapping needs a rebuild.                   *)
EXTENDS SearchProjection

MCSchema(mapping) == [settings |-> 1, options |-> 1, properties |-> [batch_ids |-> 1, metadata |-> mapping]]
MCFirst == MCSchema(1)
MCSchemas == {MCSchema(1), MCSchema(2)}
MCOlderSchema == [settings |-> 1, options |-> 1, properties |-> [metadata |-> 1]]
=============================================================================

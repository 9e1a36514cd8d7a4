------------------------------ MODULE SearchSchema ------------------------------
(***************************************************************************)
(* The plan for a change of a search index's schema (app/search/schema.py):*)
(* a schema is a record of its creation-time settings, its mapping options *)
(* and the mapping of each root field.                                     *)
(***************************************************************************)
LOCAL INSTANCE Functions

\* A snapshot of a schema has these three parts.
IsSchema(schema) ==
    schema = [settings |-> schema.settings, options |-> schema.options, properties |-> schema.properties]

\* The root fields that may be added to an existing index.
InPlaceFields == {"batch_ids"}

Fields(schema) == DOMAIN schema.properties
Added(current, desired) == Fields(desired) \ Fields(current)
Removed(current, desired) == Fields(current) \ Fields(desired)
Changed(current, desired) ==
    {f \in Fields(current) \cap Fields(desired) : current.properties[f] # desired.properties[f]}

\* A difference that needs the documents to be projected again.
NeedsProjection(current, desired) ==
    \/ current.settings # desired.settings
    \/ current.options # desired.options
    \/ Removed(current, desired) # {}
    \/ Changed(current, desired) # {}
    \/ ~(Added(current, desired) \subseteq InPlaceFields)

SchemaPlan(current, desired) ==
    IF current = desired THEN "NO_CHANGE"
    ELSE IF NeedsProjection(current, desired) THEN "REINDEX_REQUIRED" ELSE "IN_PLACE"

\* The mapping of the index after the update of an IN_PLACE plan.
MappingUpdate(current, desired) ==
    [current EXCEPT !.properties = [f \in Fields(current) \cup Added(current, desired) |->
        IF f \in Fields(current) THEN current.properties[f] ELSE desired.properties[f]]]
=============================================================================

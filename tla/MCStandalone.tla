------------------------------ MODULE MCStandalone ------------------------------
(* The components that keep to themselves, one at a time: "focus" is the      *)
(* component of a behaviour, the others stay in one of their initial states.  *)
EXTENDS ReviewBatch, MetadataLog, Administration, Revisions, Sessions

VARIABLE focus

\* Assertion and resolution policies that a definition is created or updated with.
MCPolicies == {<<"IMMEDIATE", "EXPLICIT_ONLY">>, <<"REQUIRES_CONFIRMATION", "LATEST_VALID">>,
               <<"IMMEDIATE", "HUMAN_PRECEDENCE">>}

\* Requests, reviewers and authors differ in nothing but their names.
MCSymmetry == Permutations(Requests) \cup Permutations(Reviewers) \cup Permutations(Authors)

Foci == {"build", "coding", "metadata", "administration", "revisions", "sessions"}

\* Coding starts from a READY batch of the documents; it is assigned to nobody.
ReadyBatch ==
    [NoReviewBatch EXCEPT !.status = "READY", !.members = documents, !.count = Len(documents),
                          !.build = "sync"]

MCInit ==
    /\ focus \in Foci
    /\ runs = <<>> /\ requests = [q \in Requests |-> IdleReview]
    /\ documents \in {SubSeq(s, 1, n) : s \in {SetToSeq(MatterDocs)}, n \in 0..Cardinality(MatterDocs)}
    /\ focus \notin {"build", "coding"} => documents = <<>>
    /\ focus = "coding" => documents # <<>>
    /\ batch = [b \in Batches |-> IF focus = "coding" /\ b = (CHOOSE c \in Batches : TRUE)
                                  THEN ReadyBatch ELSE NoReviewBatch]
    /\ MetadataInit /\ AdminInit /\ RevisionsInit /\ SessionsInit

On(component, vars) == focus = component /\ UNCHANGED <<focus, vars>>

MCNext ==
    \/ /\ On("build", <<metadataVars, adminVars, revisionVars, sessionVars>>)
       /\ BuildNext /\ UNCHANGED <<runs, requests>>
    \/ /\ On("coding", <<metadataVars, adminVars, revisionVars, sessionVars>>)
       /\ CodingNext
    \/ /\ On("metadata", <<reviewVars, adminVars, revisionVars, sessionVars>>)
       /\ MetadataNext
    \/ /\ On("administration", <<reviewVars, metadataVars, revisionVars, sessionVars>>)
       /\ AdminNext
    \/ /\ On("revisions", <<reviewVars, metadataVars, adminVars, sessionVars>>)
       /\ RevisionsNext
    \/ /\ On("sessions", <<reviewVars, metadataVars, adminVars, revisionVars>>)
       /\ SessionsNext

\* The rows have the types that the models declare, in every component.
StandaloneTypeOK ==
    /\ ReviewTypeOK
    /\ MetadataTypeOK
    /\ AdminTypeOK
    /\ RevisionsTypeOK
    /\ SessionsTypeOK
=============================================================================

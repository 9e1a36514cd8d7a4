--------------------------------- MODULE MCJobs ---------------------------------
(* The jobs that DBOS executes in the background, one kind at a time: "focus" *)
(* is the kind, the others stay in one of their initial states.               *)
EXTENDS EmbeddingJob, TopicJob, TextProcessing

CONSTANTS i1, i2,  \* the items with texts
          r1, r2   \* the text processing runs

VARIABLE focus

\* Items and runs differ in nothing but their names: one of two states that differ in them is
\* enough.
ItemsInOrder == texts[i1] <= texts[i2]
RunsInOrder == textRuns[r2].status # "NONE" => textRuns[r1].status # "NONE"

MCInit ==
    /\ focus \in {"embedding", "topics", "text"}
    /\ EmbeddingInit /\ TopicInit
    /\ TextInit /\ ItemsInOrder /\ (focus # "text" => \A i \in TextItems : texts[i] = 1)

MCNext ==
    /\ UNCHANGED focus
    /\ \/ focus = "embedding" /\ EmbeddingNext /\ UNCHANGED <<topicVars, textVars>>
       \/ focus = "topics" /\ TopicNext /\ UNCHANGED <<embeddingVars, textVars>>
       \/ focus = "text" /\ TextNext /\ RunsInOrder' /\ UNCHANGED <<embeddingVars, topicVars>>

MCSpec ==
    /\ MCInit /\ [][MCNext]_<<focus, embeddingVars, topicVars, textVars>>
    /\ EmbeddingFairness

\* The rows have the types that the models declare.
JobsTypeOK == EmbeddingTypeOK /\ TopicTypeOK /\ TextTypeOK
=============================================================================

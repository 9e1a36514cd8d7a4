SPECIFICATION MCSpec
CONSTANTS
    EmbeddingJobs = {j1}
    ExecutionModes = {"synchronous", "voyage_realtime", "voyage_batch"}
    EmbeddingBatchSize = 1
    MaxDocuments = 2
    MaxEmbeddingFaults = 1
    TopicJobs = {t1}
    TopicBatchSize = 1
    MaxTopicDocuments = 2
    MaxTopicFaults = 1
    i1 = i1  i2 = i2  r1 = r1  r2 = r2
    TextItems = {i1, i2}
    TextRuns = {r1, r2}
    NoTextRun = NoTextRun
    RuleSets = {r, s}
    DefaultRules = r
    MaxSources = 1
    MaxTextAttempts = 2
    MaxTextFaults = 1
INVARIANTS
    JobsTypeOK
    
    OneProviderBatch
    TopicsAppliedOnce
    CompletedTopicsAreWhole
    CompletedTextIsOfItsRules
PROPERTIES
    EveryEmbeddingJobEnds
CHECK_DEADLOCK FALSE

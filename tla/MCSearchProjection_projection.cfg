SPECIFICATION ProjectionSpec
CONSTANTS
    Batches = {b1}
    MatterDocs = {d1}
    Reviewers = {}
    Nobody = nobody
    NoBatch = nobatch
    SelectionTypes = {}
    SampleSizes = {}
    MaxBuildAttempts = 1
    FirstSchema <- MCFirst
    WantedSchemas <- MCSchemas
    OlderSchema <- MCOlderSchema
    MaxVersion = 2
    MaxOperations = 2
    MaxTasks = 3
    MaxIndexes = 3
    MaxRequeues = 1
    MaxReshapes = 1
    Concurrency = 2
    MaxAttempts = 3
    MaxFaults = 1
CHECK_DEADLOCK FALSE
INVARIANTS
    ProjectionTypeOK
    
    
PROPERTIES
    EveryOperationSettles

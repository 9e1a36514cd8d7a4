SPECIFICATION ComposedSpec
CONSTANTS
    c1 = c1
    Collections = {c1}
    Artifacts = {a1, a2}
    ItemArtifacts = {a1, a2}
    CollectionOf <- MCCollectionOf
    Blobs = {b1}
    Hashes = {h1}
    Imports = {i1}
    Matters = {m1}
    Absent = Absent
    Removed = Removed
    NoCollection = NoCollection
    NoMatter = NoMatter
    Unwritten = Unwritten
    Erased = Erased
    NoUpload = NoUpload
    MaxJobs = 1
    MaxAttempts = 2
    Requests = {r1}
    BatchSize = 1
    BlobBatchSize = 1
    FaultKinds = {"outage"}
    MaxFaults = 1
    ImportBatchSize = 1
    MaxBatches = 2
    Unimportable = {}
    Cancelable = {}
    MaxImportFaults = 1
INVARIANTS
    NoDanglingDocument
CHECK_DEADLOCK FALSE

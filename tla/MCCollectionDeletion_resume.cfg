SPECIFICATION FairSpec
CONSTANTS
    c1 = c1  c2 = c2  a1 = a1  a2 = a2  s1 = s1  a3 = a3
    Collections = {c1}
    Artifacts = {a1, a2, s1}
    ItemArtifacts = {a1, a2}
    CollectionOf <- MCCollectionOf
    Blobs = {b1, b2}
    Hashes = {h1, h2}
    Imports = {}
    Matters = {}
    Absent = Absent
    Removed = Removed
    NoCollection = NoCollection
    NoMatter = NoMatter
    Unwritten = Unwritten
    Erased = Erased
    NoUpload = NoUpload
    MaxJobs = 1
    MaxAttempts = 3
    Requests = {r1}
    BatchSize = 1
    BlobBatchSize = 1
    FaultKinds = {"outage", "restart", "replay", "enqueue"}
    MaxFaults = 3
INVARIANTS
    TypeOK
    CompletedIsGone
    TotalsExact
PROPERTIES
    LifecycleSpec
    EveryJobEnds
CHECK_DEADLOCK FALSE

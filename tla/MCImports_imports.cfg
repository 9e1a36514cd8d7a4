SPECIFICATION MCSpec
CONSTANTS
    c1 = c1
    i2 = i2
    Collections = {c1}
    Artifacts = {a1, a2, a3}
    ItemArtifacts = {a1, a2, a3}
    CollectionOf <- MCCollectionOf
    Blobs = {b1}
    Imports = {i1, i2}
    Matters = {m1}
    Absent = Absent
    Removed = Removed
    NoCollection = NoCollection
    NoMatter = NoMatter
    ImportBatchSize = 2
    MaxBatches = 2
    Unimportable = {}
    Cancelable = {i1}
    MaxImportFaults = 2
    SourceItems <- MCSourceItems
    NoParent = NoParent
    Threads = {t1, t2}
    NoThread = NoThread
    MaxToolRuns = 2
    MaxExpiries = 2
    MaxLost = 1
INVARIANTS
    ImportsTypeOK
    
    OneDocumentPerItem
    BatchesAccountForDocuments
    ReportIsExact

    
CHECK_DEADLOCK FALSE

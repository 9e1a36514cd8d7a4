SPECIFICATION ImportSpec
CONSTANTS
    c1 = c1
    Collections = {c1}
    Artifacts = {a1, a2}
    ItemArtifacts = {a1, a2}
    CollectionOf <- MCCollectionOf
    Blobs = {b1}
    Imports = {i1}
    Matters = {m1}
    Absent = Absent
    Removed = Removed
    NoCollection = NoCollection
    NoMatter = NoMatter
    ImportBatchSize = 1
    MaxBatches = 2
    Unimportable = {}
    Cancelable = {i1}
    MaxImportFaults = 0
PROPERTIES
    CanceledIsFinal
CHECK_DEADLOCK FALSE

INIT MCInit
NEXT MCNext
CONSTANTS
    Batches = {b1, b2}
    MatterDocs = {d1, d2}
    Reviewers = {u1, u2}
    Nobody = Nobody
    NoBatch = NoBatch
    SelectionTypes = {"ALL_MATTER", "SEARCH_QUERY", "RANDOM_BATCH", "RANDOM_MATTER"}
    SampleSizes = {1}
    MaxBuildAttempts = 2
    Requests = {q1, q2}
    CodedValues = {v}
    NoValue = NoValue
    Purposes = {"REVIEW"}
    MaxMarks = 2
    Authors = {a1, a2}
    FieldValues = {v1, v2}
    FirstValues = {v1}
    Policies <- MCPolicies
    NoFieldValue = NoFieldValue
    MaxEvents = 3
    MaxRedefinitions = 1
    Root = root
    Tenants = {t1}
    FirstUser = u0
    Users = {u1}
    Clients = {c1}
    Matters = {m1, m2}
    CoreFields = {k0}
    CustomFields = {k1}
    Groups = {g0, g1}
    CoreGroup = g0
    Copies = {s1}
    Searches = {n1}
    MaxCommands = 6
    Editors = {e1, e2}
    MaxVersions = 3
    SignIns = {s1, s2}
    Calls = {c1, c2}
    MaxAttemptCount = 2
    MaxTokens = 4
SYMMETRY MCSymmetry
INVARIANTS
    StandaloneTypeOK
    OneReviewPerReviewer
    CompletionIsEarned
    ProjectionStands
    TenantsAreClosed
    HistoriesAreSerial
PROPERTIES
    MembershipFrozen
    
CHECK_DEADLOCK FALSE

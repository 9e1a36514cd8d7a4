SPECIFICATION TextSpec
CONSTANTS
    TextItems = {i1, i2}
    TextRuns = {r1, r2}
    NoTextRun = NoTextRun
    RuleSets = {r, s}
    DefaultRules = r
    MaxSources = 1
    MaxTextAttempts = 1
    MaxTextFaults = 0
INVARIANTS
    SuccessfulOutputsArePreferred
CHECK_DEADLOCK FALSE

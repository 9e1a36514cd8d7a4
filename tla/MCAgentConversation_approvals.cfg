SPECIFICATION AgentSpec
CONSTANTS
    MaxTurns = 2
    MaxRounds <- MCMaxRounds
    Calls = {x, y}
    AgentFaultKinds = {"restart", "replay", "tool", "model"}
    MaxAgentFaults = 2
    NoRun = NoRun
    NoCall = NoCall
INVARIANTS
    AgentTypeOK
    EffectsAreApprovedOnce
    DecidedIsResumed
PROPERTIES
    EveryRunEnds
CHECK_DEADLOCK FALSE

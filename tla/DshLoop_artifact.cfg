SPECIFICATION DshSpec
CONSTANTS
    MaxMessages = 3
    MaxCalls = 1
    MaxSteps = 1
    MaxErrors = 1
    MaxCancels = 0
    MaxKills = 0
    MaxTorn = 0
    MaxWriteFails = 0
INVARIANTS ArtifactLoads
CHECK_DEADLOCK FALSE

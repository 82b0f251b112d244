SPECIFICATION Spec
CONSTANTS
    InitOp = "i"
    LocalOps = {"b"}
    PeerOps = {"p"}
    Bad = {"b"}
    Big = {}
    EarlyRows = FALSE
    RowLimit = 1
    MaxDrops = 1
    MaxReopens = 1
    MaxWipes = 1
    MaxQuota = 1
    MaxFaults = 2
    Host = "h"
    Viewer = "v"
    Messages = {msg}
    Commands = {cmd}
    MaxCrashes = 1
    MaxEvicts = 1
    MaxSeeds = 2
    MaxMessages = 3
    MaxCalls = 2
    MaxSteps = 1
    MaxErrors = 1
    MaxCancels = 1
    MaxKills = 1
    MaxTorn = 1
    MaxWriteFails = 1
INVARIANTS   NothingLeftBehind LineagesNeverMix HistorySurvives
    LogWellFormed  MessageShownOnce IdleOwesNothing
 
CHECK_DEADLOCK FALSE

SPECIFICATION Spec
CONSTANTS
    SteerExt = TRUE
    MaxSteers = 2
    MaxIncoming = 2
    MaxDrops = 1
    MaxFails = 1
    MaxAsks = 1
    MaxOwn = 1
    Tools = {"t"}
    Questions = {"q"}
    MaxResume = 1
    MaxUsers = 2
    MaxEvents = 2
    MaxCrashes = 2
INVARIANTS NoStrandedWorking EndsWithDone SteerReachesAgentOnce QueuedSteerHasBoundary
    StreamingHasWriter ToolShownOnce OpenQuestionAnswerable RevivalsBounded
PROPERTIES OnlyDeadTurnsAreSettled 
CHECK_DEADLOCK FALSE

SPECIFICATION Spec
CONSTANTS
    Fields = {cwd, title}
    Claimed = {cwd}
    NDevices = 2
    MaxTick = 2
    MaxGcFloor = 1
    Budgets <- OneFault
INVARIANTS CaughtUpMeansEqual AckedWriteSurvives
PROPERTIES AckNeverFlickers RoomClockNeverRegresses
CHECK_DEADLOCK FALSE

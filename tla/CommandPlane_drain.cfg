CONSTANTS
  Cmds = {1, 2}
  Issued = {"Run", "Steer", "Interrupt"}
  Remote = {2}
  Workers = {task}
  Task = task
  Replies = {r1}
  None = None
  Splits = FALSE
  TTL = 1
  MaxNow = 1
  MaxCrashes = 1
SPECIFICATION Spec
CHECK_DEADLOCK FALSE
INVARIANTS TypeOK AtMostOnce NewestIsNeverSuperseded
PROPERTIES OutcomeIsFinal ImplementsLedger

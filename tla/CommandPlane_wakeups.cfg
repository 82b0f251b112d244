CONSTANTS
  Cmds = {1, 2}
  Issued = {"Interrupt"}
  Remote = {2}
  Workers = {task, kick}
  Task = task
  Replies = {}
  None = None
  Splits = FALSE
  TTL = 1
  MaxNow = 0
  MaxCrashes = 1
SPECIFICATION FairSpec
CHECK_DEADLOCK FALSE
PROPERTIES EveryCommandIsDrained

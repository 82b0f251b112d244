CONSTANTS
  Cmds = {1, 2}
  Issued = {"Run"}
  Remote = {2}
  Workers = {task, kick}
  Task = task
  Replies = {}
  None = None
  Splits = FALSE
  TTL = 1
  MaxNow = 0
  MaxCrashes = 1
SPECIFICATION Spec
CHECK_DEADLOCK FALSE
INVARIANTS AtMostOnce

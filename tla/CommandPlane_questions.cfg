CONSTANTS
  Cmds = {1, 2, 3}
  Issued = {"Run", "RespondInput"}
  Remote = {3}
  Workers = {task}
  Task = task
  Replies = {}
  None = None
  Splits = TRUE
  TTL = 1
  MaxNow = 0
  MaxCrashes = 1
SPECIFICATION Spec
CHECK_DEADLOCK FALSE
INVARIANTS QuestionAnsweredOnce

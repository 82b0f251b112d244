SPECIFICATION Spec
CONSTANTS
    Msgs = {m1, m2}
    MaxRuns = 2
    MailboxCap = 2
    Drain = drain
    Aux = aux
    Callers = {drain, aux}
    None = None
    UserInterrupts = FALSE
    StartMayFail = FALSE
    StartMayHang = FALSE
INVARIANTS AcceptedNeverLost
CHECK_DEADLOCK FALSE

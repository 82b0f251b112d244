SPECIFICATION Spec
CONSTANTS
    Msgs = {m1, m2, m3}
    MaxRuns = 2
    MailboxCap = 1
    Drain = drain
    Aux = aux
    Callers = {drain}
    None = None
    UserInterrupts = TRUE
    StartMayFail = TRUE
    StartMayHang = FALSE
INVARIANTS OneRuntime MailboxIsLedgered
CHECK_DEADLOCK FALSE

SPECIFICATION FairSpec
CONSTANTS
    Msgs = {m1, m2}
    MaxRuns = 3
    MailboxCap = 1
    Drain = drain
    Aux = aux
    Callers = {drain, aux}
    None = None
    UserInterrupts = TRUE
    StartMayFail = FALSE
    StartMayHang = TRUE
INVARIANTS UnmappedRunIsCancelled
PROPERTIES EveryCallReturns CancelledRunSettles
CHECK_DEADLOCK FALSE

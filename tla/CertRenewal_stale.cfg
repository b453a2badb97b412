CONSTANTS
    i1 = i1
    i2 = i2
    t1 = t1
    t2 = t2
    Inst <- Two
    Task <- TwoTasks
    Owner <- Owners
    NoLock = NoLock
    Validity = 9
    Sixty = 6
    Thirty = 3
    LockSpan = 3
    CallsFail = FALSE
    Restarts = FALSE
SPECIFICATION RenewalSpec
INVARIANTS WaiterServesTheNewCert

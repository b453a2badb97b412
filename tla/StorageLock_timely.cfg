CONSTANTS
    i1 = i1
    i2 = i2
    i3 = i3
    Inst <- Three
    NoLock = NoLock
    Lifetime = 7
    Settle = 2
    Lag = 1
    Work = 2
    MaxSkew = 1
    Offset <- SkewedClocks
    MaxLocks = 2
SPECIFICATION Spec
CONSTRAINT NobodyIsSlow
INVARIANTS LockInv
PROPERTIES ImplementsMutex

CONSTANTS
    i1 = i1
    i2 = i2
    Inst <- Two
    NoLock = NoLock
    NoCert = NoCert
    Lifetime = 8
    Settle = 2
    Lag = 1
    Work = 9
    Poll = 2
    MaxChecks = 8
    MaxSkew = 1
    Offset <- SkewedClocks
    MaxLocks = 3
    Faulty <- First
    MaxRestarts = 1
SPECIFICATION Spec
CONSTRAINT SlowOrRestarted
INVARIANTS SurvivorNeverGivesUp ServedIsRenewed LetsEncryptTwice
PROPERTIES ImplementsStorageLock

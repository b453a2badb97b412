CONSTANTS
    i1 = i1
    i2 = i2
    Inst <- Two
    NoLock = NoLock
    NoKey = NoKey
    Lifetime = 30
    Settle = 2
    Lag = 1
    Work = 3
    Poll = 3
    MaxChecks = 5
    MaxSkew = 1
    Offset <- SkewedClocks
    MaxLocks = 3
    Faulty <- First
    MaxRestarts = 1
SPECIFICATION Spec
CONSTRAINT SlowOrRestarted
INVARIANTS StoredHalvesMatch NobodyGivesUp HalfPairIsLocked LatecomersCreateNoKey
PROPERTIES ImplementsStorageLock

CONSTANTS
    a = a
    b = b
    Caller <- TwoCallers
    Lifetime = 3
    Validity = 5
    Lag = 1
    Retries = 2
    None = None
SPECIFICATION FairSpec
INVARIANTS SingleFlight SentTokenIsValid
PROPERTIES EveryCallEnds

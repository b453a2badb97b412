CONSTANTS
    None = None
    Modes <- BothModes
    MaxAttempts = 1
    LongNap = 3
    MaxRestarts = 1
    MaxFaults = 2
    Offsets <- SomeOffsets
    RttLimit = 1
    Tries = 2
    Life = 2
    MaxAge = 3
    Header <- AHeader
    Payload <- APayload
    Forward = {TRUE, FALSE}
SPECIFICATION FairSpec
INVARIANTS MarkedIsComplete SyncedClockIsClose TrustedDomainIsTrusted ServedIsFresh StreamIsKept
PROPERTIES UserIsStarted
CHECK_DEADLOCK FALSE

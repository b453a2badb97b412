CONSTANTS
    Limit = 4
    MaxOrphans = 1
    UserStates <- AnyState
SPECIFICATION HealthFairSpec
INVARIANTS OneBadResultLasts
PROPERTIES DrainingIsReported FailureIsReported

CONSTANTS
    MaxLen = 6
    Capacity = 2
SPECIFICATION DecoderSpec
INVARIANTS BufferIsInStep RangesAreCiphertexts MissedOnlyAtABoundary

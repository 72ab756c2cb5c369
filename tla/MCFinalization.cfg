SPECIFICATION MCSpec
CONSTANTS
    None = None
    MaxProofAge = 3
    MaxFutureSkew = 1
    Now = 5
    MaxTime = 7
    MaxVariations = 2
INVARIANTS
    ReleasedIffProved
    GateAgreesWithModel
CHECK_DEADLOCK FALSE

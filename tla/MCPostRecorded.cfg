SPECIFICATION Spec
CONSTANTS
    None = None
    Flows = {f1}
    Accounts = {a1, a2}
    MaxProofAge = 1
    MaxFutureSkew = 1
    MaxClock = 0
    MaxChanges = 0
INVARIANTS
    PostRecorded
CHECK_DEADLOCK FALSE

SPECIFICATION Spec
CONSTANTS
    None = None
    Flows = {f1, f2}
    Accounts = {a1, a2}
    MaxProofAge = 1
    MaxFutureSkew = 1
    MaxClock = 3
    MaxChanges = 2
CONSTRAINT MCBound
SYMMETRY MCSymmetry
INVARIANTS
    TypeOK
    ReportTrue
PROPERTIES
    ReleasedOnCurrentFacts
CHECK_DEADLOCK FALSE

SPECIFICATION Spec
CONSTANTS
    None = None
    Initial <- MCInitial
    CommentKinds <- MCKinds
    MaxLength = 5
    MaxDeletions = 1
    PerPage = 2
    Limits <- MCLimits
    Faults = {"timeout"}
INVARIANTS
    ScanIsAtomic
    ConclusionJustified
PROPERTIES
    ScanEnds
CHECK_DEADLOCK FALSE

SPECIFICATION Spec
CONSTANTS
    ClarificationIds = {c1, c2, c3}
    None = None
INVARIANTS
    StageCursorValid
    ResumeOneShotFifo
PROPERTIES
    StageProgress

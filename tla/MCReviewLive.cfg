SPECIFICATION Spec
CONSTANTS
    r1 = r1
    r2 = r2
    c1 = c1
    c2 = c2
    f1 = f1
    None = None
    ClarificationIds = {c1, c2}
    FindingIds = {f1}
    Reviewers = {r1, r2}
    Required = {r1}
    RequestChanges = {r2}
    StageSelection <- MCSelection
    MaxReviewers = 5
    MaxLiveCalls = 9
    Live = TRUE
    MaxAttempts = 2
    RawInputs = {}
    LiveOutputs <- MCLiveOutputs
INVARIANTS
    WithinBudget
PROPERTIES
    FinalStatusKept
CHECK_DEADLOCK FALSE

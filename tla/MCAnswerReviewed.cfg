SPECIFICATION Spec
CONSTANTS
    r1 = r1
    r2 = r2
    c1 = c1
    c2 = c2
    f1 = f1
    f2 = f2
    None = None
    ClarificationIds = {c1, c2}
    FindingIds = {f1, f2}
    Reviewers = {r1, r2}
    Required = {r1}
    RequestChanges = {r1}
    StageSelection <- MCSelection
    MaxReviewers = 4
    MaxLiveCalls = 0
    Live = FALSE
    MaxAttempts = 1
    RawInputs <- MCRawInputs
    LiveOutputs = {}
INVARIANT EveryAnswerReviewed
CHECK_DEADLOCK FALSE

SPECIFICATION MCSpec
CONSTANTS
    None = None
    TrustedOperators = {"operator"}
    TrustedBots = {"bot"}
    PatchLines <- MCPatchLines
    MaxPatchLines = 5
    Inputs <- MCInputs
    Returned <- MCReturned
    Reviewers <- MCReviewers
    MaxProofAge = 300
    MaxFutureSkew = 60
    Logins = {"reviewgraph-bot", "other-bot"}
    Wordings = {"reworded"}
INVARIANTS
    TypeOK
    RangesExact
    PublicOnChangedCode
    PublicRestsOnTrustedMemory
    ProofCoversExactly
    PostedAsApproved
PROPERTIES
    NothingLost
CHECK_DEADLOCK FALSE

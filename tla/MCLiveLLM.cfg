SPECIFICATION Spec
CONSTANTS
    None = None
    Runs = {r1, r2}
    Packages = {p1, p2}
    Budgets = {1, 2, 4}
    Settings <- MCSettings
    PolicyInputs <- MCPolicyInputs
    Answers <- MCAnswers
    MaxCalls = 3
INVARIANTS
    EveryRequestReserved
    EveryRequestPaid
    NeverCutOff
    RetriesAccounted
CHECK_DEADLOCK FALSE

SPECIFICATION Spec
CONSTANTS
    first = first
    again = again
    reworded = reworded
    elsewhere = elsewhere
    invalid = invalid
    w1 = w1
    w2 = w2
    None = None
    Callers = {first, again, reworded, invalid}
    Writers = {w1, w2}
    Writer <- MCWriter
    Run <- MCRun
    Findings <- MCFindings
    Payload <- MCPayload
    Invalid = {invalid}
    RecoveryTransport = TRUE
    AmbiguousTimeouts = TRUE
INVARIANTS
    AtMostOnePost
    OutcomeBacked
PROPERTIES
    CallReturns
CHECK_DEADLOCK FALSE

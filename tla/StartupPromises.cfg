SPECIFICATION Spec
CONSTANTS
    top = top
    one = one
    two = two
    odd = odd
    None = None
    Elsewhere = Elsewhere
    Refused = Refused
    WellFormedIds = {"default", "careers"}
    Sources <- MCSources
INVARIANTS
    FirstSubmissionCanSucceed
\* startup ends, serving or refused
CHECK_DEADLOCK FALSE

\* A call of Send ends, so the last state has no successor.
CONSTANTS
    none = none
    NoDeadline = none
    Timeout = 2
    CtxDeadlines <- MCCtxDeadlines
    MaxNow = 5
SPECIFICATION Spec
INVARIANTS AcknowledgedIsNoFailure
CHECK_DEADLOCK FALSE

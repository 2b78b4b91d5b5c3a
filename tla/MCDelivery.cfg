\* A call of Send ends and is answered, so the last state has no successor.
CONSTANTS
    none = none
    NoDeadline = none
    Timeout = 2
    CtxDeadlines <- MCCtxDeadlines
    MaxNow = 5
SPECIFICATION Spec
INVARIANTS TypeOK KeepsContract EndsInTime StepTellsHowFar TLSWhereOffered
PROPERTIES ImplementsMailer
CHECK_DEADLOCK FALSE

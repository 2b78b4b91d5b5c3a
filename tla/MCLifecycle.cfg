\* ReadHeaderTimeout 5 s, ReadTimeout 15 s, WriteTimeout 30 s, a send 10 s and
\* a grace of 15 s. Two connections overlap in every way, each for up to two
\* requests; a client or a signal may come until twenty seconds have passed. The
\* process ends, so the last state has no successor.
CONSTANTS
    Never = Never
    c1 = c1
    c2 = c2
    Conns = {c1, c2}
    ReadHeader = 1
    ReadAll = 3
    Write = 6
    Send = 2
    Grace = 3
    MaxNow = 4
    MaxRequests = 2
    Args <- MCArgs
SPECIFICATION Spec
INVARIANTS DeliveryUnderWayFinishes AnswersFit ExitCodeTellsWhy OldArgumentsStillWork
PROPERTIES ExitWithinGrace
CHECK_DEADLOCK FALSE

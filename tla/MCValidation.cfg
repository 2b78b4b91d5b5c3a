SPECIFICATION Spec
CONSTANTS
    MaxNameLen = 100
    MaxEmailLen = 254
    MaxMessageLen = 5000
    MinMessageLen = 10
    BodyLimit = 65536
    MaxLogged = 200
    Site <- Site1
    Requests <- MCRequests
    Templates <- MCTemplates
INVARIANTS
    SentExactlyWithinLimits
    RejectionIsTrue
    NoHeaderIsBroken
    LogLineIsClean
\* a submission is judged once
CHECK_DEADLOCK FALSE

SPECIFICATION Spec
CONSTANTS
    p = p
    c = c
    s = s
    V4 = {p, c}
    V6 = {s}
    Garbage = Garbage
    Blank = Blank
    Unknown = Unknown
    None = None
    Lists <- MCLists
    Headers <- MCHeaders
    OwnLine = {c}
    MaxRoute = 3
INVARIANTS
    HeldToTheRealSender
\* a process whose list is refused does not start
CHECK_DEADLOCK FALSE

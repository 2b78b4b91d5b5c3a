SPECIFICATION Spec
CONSTANTS
    p = p
    c = c
    s = s
    V4 = {p, c}
    V6 = {s}
    Garbage = Garbage
    Blank = Blank
    Unknown = Unknown
    None = None
    Lists <- MCOddLists
    Headers <- MCHeaders
    OwnLine = {c}
    MaxRoute = 3
INVARIANTS
    BareAddressIsTrusted
\* a process whose list is refused does not start
CHECK_DEADLOCK FALSE

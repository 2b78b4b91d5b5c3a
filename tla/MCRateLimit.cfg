\* Period 2 and six ticks: two whole windows of a caller fit and a third can
\* begin, so a burst straddles an edge, expires and starts again.
CONSTANTS
    k1 = k1
    k2 = k2
    Keys = {k1, k2}
    Period = 2
    Limits <- MCLimits
    MaxNow = 6
SPECIFICATION Spec
INVARIANTS TypeOK WindowHistory SlidingBound
PROPERTIES RefusedOnlyWhenSpent OpenWindowsStay RemembersOnlyRecent

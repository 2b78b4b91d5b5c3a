\* Period 1 and three ticks: a window opens, expires while another goroutine
\* holds the mutex, and a second one opens.
CONSTANTS
    k1 = k1
    k2 = k2
    g1 = g1
    g2 = g2
    Nobody = Nobody
    Keys = {k1, k2}
    Goroutines = {g1, g2}
    Period = 1
    Limits <- MCLimits
    MaxNow = 3
SPECIFICATION Spec
INVARIANTS TypeOK
PROPERTIES ImplementsRateLimit EveryCallReturns

SPECIFICATION Spec
CONSTANTS
    c1 = c1
    c2 = c2
    m1 = m1
    m2 = m2
    m3 = m3
    m4 = m4
    None = None
    Copiers = {c1, c2}
    Msgs = {m1, m2, m3, m4}
    Bad = {m4}
    MaxErrors = 2
    MaxCrashes = 1
INVARIANT LossIsBounded
PROPERTIES CopiesAtMostOnce StopSpreads QueueDrains
CHECK_DEADLOCK FALSE

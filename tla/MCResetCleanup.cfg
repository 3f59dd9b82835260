SPECIFICATION Spec
CONSTANTS
    q1 = q1
    q2 = q2
    q3 = q3
    e1 = e1
    e2 = e2
    i1 = i1
    i2 = i2
    NoEmail = NoEmail
    NoIP = NoIP
    Requests = {q1, q2, q3}
    Emails = {e1}
    IPs = {i1}
    Limits <- MCLimits
    Arrivals <- ResetCalls
    Stall = 1
    MaxTime = 5
SYMMETRY RequestSymmetry
CHECK_DEADLOCK FALSE
INVARIANTS
    EmailCapWholeWindow

SPECIFICATION Spec
CONSTANTS
    q1 = q1
    q2 = q2
    q3 = q3
    e1 = e1
    e2 = e2
    i1 = i1
    i2 = i2
    NoEmail = NoEmail
    NoIP = NoIP
    Requests = {q1, q2, q3}
    Emails = {e1, e2}
    IPs = {i1, i2}
    Limits <- MCLimits
    Arrivals <- AllCalls
    Stall = 1
    MaxTime = 4
SYMMETRY RequestSymmetry
CHECK_DEADLOCK FALSE
INVARIANTS TypeOK EmailCooldown EmailCap IPCap RefusalJustified AllowedStayCounted
PROPERTIES ResetLimitHolds SignupLimitHolds LinkLimitHolds

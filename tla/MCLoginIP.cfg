SPECIFICATION Spec
CONSTANTS
    q1 = q1
    q2 = q2
    q3 = q3
    e1 = e1
    e2 = e2
    e3 = e3
    i1 = i1
    i2 = i2
    NoEmail = NoEmail
    NoIP = NoIP
    Requests = {q1, q2, q3}
    Emails = {e1, e2, e3}
    IPs = {i1}
    Limits <- MCLimits
    Logins <- WithAddress
    Stall = 1
    MaxTime = 4
SYMMETRY FullSymmetry
CHECK_DEADLOCK FALSE
INVARIANTS
    IPCap
PROPERTIES
    OnlyOwnPairCleared

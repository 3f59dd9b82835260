SPECIFICATION Spec
CONSTANTS
    Verifications = {v}
    Resets = {}
    Invites = {}
    Workers = {w1, w2}
    MaxRetries = 1
    DeliveryLimit = 2
    MaxQueued = 1
    MaxCopies = 3
    NoMessage = NoMessage
INVARIANTS TypeOK
PROPERTIES KeptUntilSettled Drains LinkArrives
CHECK_DEADLOCK FALSE

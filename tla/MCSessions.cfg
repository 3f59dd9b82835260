SPECIFICATION Spec
CONSTANTS
    Users = {u1}
    Keys = {k1, k2}
    Requests = {r1, r2}
    Legacy = {k1}
    IdleAge = 2
    AbsoluteAge = 2
    MaxTime = 2
    MaxVersion = 2
    NoSession = NoSession
    NoKey = NoKey
    NoUser = NoUser
    Missing = Missing
SYMMETRY Symmetric
INVARIANTS TypeOK
PROPERTIES AbsoluteHolds RestartHonoured EndedStaysEnded OldPasswordOut

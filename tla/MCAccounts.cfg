SPECIFICATION Spec
CONSTANTS
    Emails = {a, b}
    Requests = {r1, r2}
    MaxUsers = 2
    MaxStamp = 2
    MaxTasks = 2
    MaxLinks = 2
    AdminForms = {"change", "set_password", "disable_password"}
    Absent = Absent
    Idle = Idle
    NoLink = NoLink
SYMMETRY Symmetric
INVARIANTS TypeOK VerifiedMeansProved UsedLinkRefused
PROPERTIES PasswordSetAtItsAddress OnlyAdminsEdit VerifiedSticks
CHECK_DEADLOCK FALSE

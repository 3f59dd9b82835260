SPECIFICATION Spec
CONSTANTS
    Emails = {a, b}
    Requests = {r1}
    MaxUsers = 1
    MaxStamp = 3
    MaxTasks = 3
    MaxLinks = 2
    AdminForms = {"change", "set_password", "disable_password"}
    Absent = Absent
    Idle = Idle
    NoLink = NoLink
CHECK_DEADLOCK FALSE
SYMMETRY Symmetric
INVARIANT UnprovedIsUnconfirmed

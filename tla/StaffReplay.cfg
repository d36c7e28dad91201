CONSTANTS
    Emails = {"e1"}
    StaffRpcs = {"c1", "c2"}
    NewRoles = {"support"}
    StaffActions = {"guardian"}
    StaffTtl = 2
    AuditWrites = {"ok"}
    MaxStep = 2
    MaxStaffSessions = 2
    MaxAudit = 3
    MaxRestarts = 0
    MaxFails = 1
    Window = 1
INIT StaffInit
NEXT StaffNext
INVARIANT CodeNeverReplayed
CHECK_DEADLOCK FALSE

SPECIFICATION Spec
CONSTANTS
    Threads = {t1, t2}
    Callers = {"stranger"}
    Operations = {"ACTIVATE", "REVOKE"}
    IssuerOnly = FALSE
    DiskFails = FALSE
    Written = "active"
    MaxRequests = 2
    MaxCrashes = 0
PROPERTY RevokeIsPermanent
CHECK_DEADLOCK FALSE

SPECIFICATION Spec
CONSTANTS
    Threads = {t1, t2}
    Callers = {"stranger"}
    Operations = {"DEPRECATE", "REINSTATE", "QUERY"}
    IssuerOnly = FALSE
    DiskFails = FALSE
    Written = "active"
    MaxRequests = 2
    MaxCrashes = 0
INVARIANT DeprecatedStaysInReach
CHECK_DEADLOCK FALSE

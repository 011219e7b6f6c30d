SPECIFICATION Spec
CONSTANTS
    Threads = {t1, t2}
    Callers = {"issuer", "stranger"}
    Operations = {"ACTIVATE", "DEACTIVATE", "REVOKE", "REINSTATE", "DEPRECATE", "DESCRIBE", "QUERY"}
    IssuerOnly = TRUE
    DiskFails = TRUE
    Written = "draft"
    MaxRequests = 3
    MaxCrashes = 1
SYMMETRY AnyThread
INVARIANTS DocumentReadable SavedSurvives StoresAgree
PROPERTIES NoServiceOnceOut RetiredIsFinal
CHECK_DEADLOCK FALSE

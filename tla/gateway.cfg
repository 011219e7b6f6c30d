SPECIFICATION GatewaySpec
CONSTANTS
 m1 = m1
 m2 = m2
 t1 = t1
 t2 = t2
 MaxConns = 2
 Modules = {m1, m2}
 Threads = {t1, t2}
 Lang <- AllClosing
 MaxRequests = 2
 None = None
INVARIANTS FailsForItsOwn NoOrphan
PROPERTY DispatchReturns
CHECK_DEADLOCK FALSE

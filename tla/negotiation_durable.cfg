SPECIFICATION FairSpec
CONSTANTS
    s1 = s1  s2 = s2  s3 = s3  a1 = a1  a2 = a2  p1 = p1  p2 = p2  k1 = k1  t1 = t1  t2 = t2
    Sids = {s1, s2}
    Agents = {a1, a2}
    Plans = {p1, p2}
    Composable = {p1}
    Threads = {t1, t2}
    Keys = {k1}
    Operators = {a2}
    Scoped = {a1, a2}
    Trusted = {a1}
    Kinds = {"negotiate", "propose", "invoke", "revoke", "suspend"}
    Modes = {"true", "optimistic"}
    Headers = {"Contract-Synthesized", "Synthesis-Id"}
    NoPlan = NoPlan  Nobody = Nobody  NoKey = NoKey  NoSid = NoSid
    Durable = TRUE
    Limit = 1
    RecursionLimit = 1
    MaxRequests = 2
    MaxRestarts = 1
INVARIANTS
    WithinNegotiationLimit
    CacheNamesOwnContract
PROPERTIES
    EveryRequestEnds

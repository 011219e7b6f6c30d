SPECIFICATION MCSpec
CONSTANTS
  Absent = Absent
  Documents <- MCDocuments
  Directories <- MCDirectories
  Approved <- MCApproved
  BadPaths = {"/list"}
  Clean <- MCClean
  Slug <- MCSlug
  Items = {"/rooms/{id}"}
  Functions <- MCFunctions
  Recipes <- MCRecipes
  Implemented = {"QUERY", "DISCOVER"}
  Statuses = {"401", "404", "500"}
  HandlerCodes = {"no_desk", "broken"}
  Registries <- MCRegistries
  None = None
  Torn = Torn
  MaxKeys = 2
  Forced = {TRUE, FALSE}
  Certified = {TRUE, FALSE}
  Registrars = {TRUE, FALSE}
  Serials = {"c1", "c2", "c3"}
  Sessions = {"x"}
  Sweeps = {w1, w2}
  NoSerial = NoSerial
  Agent <- MCAgent
  Filed = {p1, p2}
  Deciders = {d1, d2}
  Pollers = {q1}
  Nil = Nil
  Bodies <- MCBodies
  Policy <- MCPolicy
  Current = {TRUE, FALSE}
  Deadline = 1
  MaxClock = 2
  NoPlan = NoPlan
  Open = Open
  Proposed <- MCProposed
  Shelves <- MCShelves
  Available <- MCAvailable
  Depths = {0, 1}
INVARIANTS ImportedErrorsDeclared WritesReachUpstream ServedIdentityIsRegistered SweepLeavesNone
  PartialPlansFail
PROPERTY ImplementsRegister
CHECK_DEADLOCK FALSE

SPECIFICATION MCSpec
CONSTANTS
  Absent = Absent
  NoValue = NoValue
  Catalog <- MCCatalog
  Preferred <- MCPreferred
  All = All
  Embedded <- MCEmbedded
  Primitives <- MCPrimitives
  BadPaths <- MCBadPaths
  Endpoints <- MCEndpoints
  Requests <- MCRequests
  Settings <- MCSettings
  Hostings <- MCHostings
  Hosts = {"h1", "h2"}
  Boots <- MCBoots
  Commands <- MCCommands
  Entered <- MCEntered
  Threads = {t1, t2}
  Keys = {k1, k2}
  Assertions <- MCAssertions
  Orders <- MCOrders
  Leeway = 2
  TTL = 2
  Room = 1
  Durable = TRUE
  MaxTime = 3
  MaxAnswers = 2
  MaxFaults = 1
  Writers = {w1, w2}
  Owners = {a1, a2}
  Nobody = Nobody
  RepairLive = FALSE
  MaxRecords = 3
  MaxWriteFaults = 2
  MaxRepairs = 1
  Nowhere = Nowhere
  Worlds <- MCWorlds
  MaxSteps = 8
  Profiles = {p1}
  Overviews = {s1}
  Elsewhere = {}
  Blank = Blank
  BridgeCalls = {c1, c2}
  TabLimit = 2
  MaxClicks = 5
  UriHistoryLimit = 2
INVARIANTS ServedInService IdentitySourcesAgree AnswersForAsked MatchedAreNotDenied
  BoughtOnceInLife SentChainsAreLinear WalkIsClosed ScreenIsOfActiveTab
PROPERTIES RepairLosesNothing ChainsOnlyGrow
CHECK_DEADLOCK FALSE

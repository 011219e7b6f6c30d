SPECIFICATION DiscoverySpec
CONSTANTS
  Nodes = {"n1", "n2"}
  Agents = {"a"}
  Caps = {"c"}
  Nil = Nil
  Doc <- MCDoc
  Hosted <- MCHosted
  Peers <- MCPeers
  Pinned <- MCPinned
  Ttls = {0, 2}
  Stamps <- MCStamps
  DefaultTtl = 2
  Postures <- MCPostures
  Envelopes <- MCEnvelopes
  Askers <- MCAskers
  Signing = {"n1"}
  Verifying = {"n2"}
  OwnKey = {}
  ScopeNeeded = TRUE
  MaxClock = 2
  Me = 0
  Far <- MCFar
  Keys = {3, 5}
  K = 2
  Alpha = 2
  Paths = 2
  Callers = {5}
  None = None
  Bits = 3
  Width = 3
  Grow = 3
  Shrink = 2
  Labels = {l1}
  Others = {x, y}
  Known = {a1, a2}
  Nobody = Nobody
  Users = {u}
  Wanted = {c1, c2}
  Sites = {s1}
  Findable <- MCFindable
  Nought = Nought
  History = 1
  Top = 1
  ProviderTtl = 1
  MaxCount = 1
  MaxTime = 1
INVARIANTS IndexAgrees CopiesKeepTheAge LeavesTile
PROPERTIES Spreads ImplementsScope
CHECK_DEADLOCK FALSE

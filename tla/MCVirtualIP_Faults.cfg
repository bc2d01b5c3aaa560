\* Failed reads, deletes and writes, two stops, the range changed and changed back, two families sharing the map.
CONSTANTS
  api = api
  git = git
  None = None
  Host <- Hosts2
  RealAddr = {}
  FakeIP = {1, 2, 3}
  Family = {"v4", "v6"}
  FamilyOf <- TwoFamilies
  AddrOf <- NoAddr
  Capacity = 2
  Retention = 1
  Socket = {}
  Cpu = {}
  Ranges <- TwoRanges
  MayFail = {"read", "release", "prune", "write", "publish", "unpublish"}
  LostMaps = {}
  Overlap = FALSE
  UpstreamSlots = 4
  MaxTime = 1
  MaxStops = 2
SYMMETRY HostSymmetry
SPECIFICATION Spec
INVARIANTS
  Resolvable
  CleanSyncAgrees
PROPERTIES
  WatchedKeepsIP
  ReservedUntilReleased

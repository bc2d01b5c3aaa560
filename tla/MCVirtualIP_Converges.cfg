\* Convergence of retried syncs.
CONSTANTS
  api = api
  git = git
  None = None
  Host <- Hosts2
  RealAddr = {}
  FakeIP = {1, 2}
  Family = {"v4"}
  FamilyOf <- OneFamily
  AddrOf <- NoAddr
  Capacity = 2
  Retention = 1
  Socket = {}
  Cpu = {}
  Ranges <- OneRange
  MayFail = {"read", "write"}
  LostMaps = {}
  Overlap = FALSE
  UpstreamSlots = 4
  MaxTime = 0
  MaxStops = 1
SPECIFICATION FairSpec
PROPERTIES
  Converges

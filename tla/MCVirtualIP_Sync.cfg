\* Sync and data plane, failed writes, restarts that find any of the pinned maps unusable, capacity pressure.
CONSTANTS
  api = api
  git = git
  None = None
  Host <- Hosts2
  RealAddr <- Hosts2
  FakeIP = {1, 2}
  Family = {"v4"}
  FamilyOf <- OneFamily
  AddrOf <- RealOf
  Capacity = 1
  Retention = 1
  Socket = {s1}
  Cpu = {c1}
  Ranges <- OneRange
  MayFail = {"write", "unpublish"}
  LostMaps = {"vip_host_ip", "vip_ip_host", "vip_upstream"}
  Overlap = FALSE
  UpstreamSlots = 4
  MaxTime = 1
  MaxStops = 1
SPECIFICATION Spec
INVARIANTS
  TypeOK
  UpstreamOfHost
  SocketReachesHost
  CleanSyncAgrees
PROPERTIES
  ReservedUntilReleased

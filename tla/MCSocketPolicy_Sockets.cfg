\* Two sockets, one after the other, at one address and descriptor.
CONSTANTS
  None = None
  api = api
  git = git
  x = x
  y = y
  s = s
  t = t
  Slot = {k1}
  Host = {api, git}
  Addr = {x, y}
  RealOf <- Real
  Backends <- Balanced
  Secret = {s, t}
  SecretHost <- HostOf
  SecretAddr <- AddrOf
  MaxSockets = 2
  MaxStops = 2
SPECIFICATION Spec
INVARIANTS
  TypeOK
  KeptForHost
  KeptForAddr
  ServersSkipped
CHECK_DEADLOCK FALSE

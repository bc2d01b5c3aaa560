\* One pod with two containers, both with a TLS library.
CONSTANTS
  None = None
  p1 = p1
  p2 = p2
  g1 = g1
  g2 = g2
  Pod = {p1}
  Cgroup = {g1, g2}
  PodOf <- OnePod
  Inode = {1}
  LibTls = {g1, g2}
  MaxFails = 0
SPECIFICATION FairSpec
INVARIANTS
  OneProgram
PROPERTIES
  RunningKept
  Served
CHECK_DEADLOCK FALSE

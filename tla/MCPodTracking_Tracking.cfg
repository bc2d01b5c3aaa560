\* Two pods, one after the other, of which the second gets the inode of the first; attaches may fail.
CONSTANTS
  None = None
  p1 = p1
  p2 = p2
  g1 = g1
  g2 = g2
  Pod = {p1, p2}
  Cgroup = {g1, g2}
  PodOf <- TwoPods
  Inode = {1}
  LibTls = {g1}
  MaxFails = 1
SPECIFICATION Spec
INVARIANTS
  TypeOK
  OneProgram
  DedupSound
  NothingLeft
CHECK_DEADLOCK FALSE

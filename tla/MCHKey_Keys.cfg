\* SSL objects and cipher contexts reused by three connections and three keys.
CONSTANTS
  None = None
  Ssl = {o1, o2}
  Ctx = {e1, e2}
  Cpu = {p1}
  MaxConns = 3
  MaxKeys = 3
SPECIFICATION Spec
SYMMETRY Interchangeable
INVARIANTS
  TypeOK
  CacheFresh
  TagOfOwnKey
CHECK_DEADLOCK FALSE

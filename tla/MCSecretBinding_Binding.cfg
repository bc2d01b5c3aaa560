\* Syncs, rebinds and unbinds, with one section whose operations fail.
CONSTANTS
  p1 = p1
  p2 = p2
  c1 = c1
  c2 = c2
  a = a
  s1 = s1
  s2 = s2
  o1 = o1
  o2 = o2
  h1 = h1
  k1 = k1
  k2 = k2
  k3 = k3
  None = None
  AllKeys = AllKeys
  AnyHost = AnyHost
  Pod = {p1, p2}
  Cgroup = {c1, c2}
  Addr = {a}
  Secret = {s1, s2}
  Owner = {o1, o2}
  Host = {h1}
  Placeholder = {k1, k2, k3}
  CgroupsOf <- Containers
  AddrsOf <- Addresses
  RefsOf <- References
  OwnerOf <- Owners
  Versions <- Offers
  MaxChanges = 1
  MaxFaults = 1
SPECIFICATION FairSpec
INVARIANTS
  TypeOK
  BindingsExact
  SecretsExact
PROPERTIES
  KeepsPromise
  FaultsSettle
  Heals

CONSTANTS
  p1 = p1
  p2 = p2
  h1 = h1
  h2 = h2
  Operations = {o1}
  Keys = {k1, k2}
  Sessions = {s1, s2, s3}
  Contents = {c1}
  Adapters = {host}
  Hosts = {h1}
  Calls = {p1, p2}
  HostOf <- OneProcess
  Responses = {r1}
  Pending = Pending
  Predecessors = {s1}
  MaxRecords = 1
  FileFails = TRUE
  Overlapping = {FALSE}
  None = None
SPECIFICATION HostSpec
SYMMETRY OneProcessSymmetry
INVARIANTS
  LedgerBounded
PROPERTIES
  EvictsOnlyCancelled

CONSTANTS
  p1 = p1
  p2 = p2
  h1 = h1
  h2 = h2
  o1 = o1
  k1 = k1
  c1 = c1
  c2 = c2
  s0 = s0
  native = native
  Operations = {o1}
  Keys = {k1}
  Sessions = {s0, s1, s2}
  Contents = {c1}
  Adapters = {native}
  Hosts = {h1, h2}
  Calls = {p1, p2}
  HostOf <- TwoProcesses
  Responses = {r1}
  Pending = Pending
  Predecessors = {s0}
  MaxRecords = 2
  FileFails = FALSE
  Overlapping = {FALSE}
  MaxTransitions = 13
  Offered <- RollingClientAndRecovery
  Submitted <- OneDocument
  ThisAdapter = native
  FaultKinds = {"abandon", "restart"}
  MaxFaults = 2
  None = None
SPECIFICATION Spec
INVARIANTS
  SuccessorFound

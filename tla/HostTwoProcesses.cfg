CONSTANTS
  p1 = p1
  p2 = p2
  h1 = h1
  h2 = h2
  Operations = {o1}
  Keys = {k1}
  Sessions = {s0, s1, s2}
  Contents = {c1, c2}
  Adapters = {host}
  Hosts = {h1, h2}
  Calls = {p1, p2}
  HostOf <- TwoProcesses
  Responses = {r1}
  Pending = Pending
  Predecessors = {s0}
  MaxRecords = 2
  FileFails = TRUE
  Overlapping = {FALSE, TRUE}
  None = None
SPECIFICATION HostSpec
SYMMETRY TwoProcessesSymmetry
INVARIANTS
  HostTypeOK
  LedgersValid
  ReadyMeansAnswered
  OneReadySession
  IntentBeforeBootstrap
PROPERTIES
  NoSessionLostInTurn
  BoundOnce
  RevivedOnlyInFlight

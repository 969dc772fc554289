CONSTANTS
  Projects = {p1, p2, p3}
  Callers = {c1, c2}
  MemoryCallers = {c1}
  Stoppers = {s1, s2}
  Repositories = {r1, r2, r3, r4}
  None = None
  MaxOpen = 2
SPECIFICATION MemorySpec
CHECK_DEADLOCK FALSE
INVARIANTS
  CacheBounded
  OpenedOnce
  HeldIsOpen
  NoneLeaks
  OpenerQuiet
  OperationKeepsRepository
PROPERTIES
  ShutdownCloses

CONSTANTS
  Operations = {o1, o2}
  Keys = {k1, k2}
  Sessions = {s1, s2}
  Contents = {c1, c2}
  Adapters = {host}
  MaxTransitions = 12
  None = None
SPECIFICATION RepositorySpec
SYMMETRY IdSymmetry
INVARIANTS
  TypeOK
  OneActiveOperation
  AttemptBound
  SuccessorBound
  SealedOnlyAcknowledged
  PointerIsAcknowledged
PROPERTIES
  NeverBackward
  FinishedIsFinal
  CanonicalHandoffStable
  ImplementsHandover

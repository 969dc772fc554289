CONSTANTS
  o1 = o1
  MaxRuns = 3
  MaxFaults = 1
  MaxSchedules = 2
  Owners = {o1}
  OwnerOf <- OneOwner
  Repeats <- SecondRepeats
  None = None
SPECIFICATION OnceSpec
CHECK_DEADLOCK FALSE
INVARIANTS
  CallsAreRecorded
  OutcomeIsFinal
  NoOverlap
PROPERTIES
  AdmittedBeforeStart
  NoAutomaticRetry
  CancelledStays

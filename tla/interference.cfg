SPECIFICATION Spec
CONSTANTS
  Jobs <- MCOneJob
  Workers = {w1, w2}
  MaxServer = 4
  MaxAttempts = 2
  MaxTemporary = 2
  Faults <- OperatorFaults
  MaxFaults = 3
  None = None
  Dead = Dead
SYMMETRY Symmetry
INVARIANTS
  LeaseMutex
  MasterTargetProven
  DuplicatesRenamed
PROPERTIES
  OldVpsDeletedOnlyWhenProven
  VerifiedNeverDiscarded
  ImplementsSafeSwap
CHECK_DEADLOCK FALSE

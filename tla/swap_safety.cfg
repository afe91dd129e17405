SPECIFICATION Spec
CONSTANTS
  Jobs <- MCTwoJobs
  Workers = {w1}
  MaxServer = 4
  MaxAttempts = 2
  MaxTemporary = 2
  Faults <- CrashFaults
  MaxFaults = 1
  None = None
  Dead = Dead
INVARIANTS
  TypeOK
  OneTemporaryPerJob
  NoStrandedNode
  RegistryAgrees
PROPERTIES
  OldVpsDeletedOnlyWhenProven
  ImplementsSafeSwap

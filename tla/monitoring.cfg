SPECIFICATION MonSpec
CONSTANTS
  Checkers = {c1, c2}
  FailureThreshold = 2
  RecoveryThreshold = 1
  Probes = 2
  MinSuccess = 1
  MaxClock = 4
  MaxFaults = 2
  None = None
  Dead = Dead
INVARIANTS
  MonTypeOK
  StaleResultsBounded
  RepeatsPaid
PROPERTIES
  MonitoringLeaseKept
CHECK_DEADLOCK FALSE

SPECIFICATION FairSpec
CONSTANTS
  Checkers = {c1}
  FailureThreshold = 1
  RecoveryThreshold = 1
  Probes = 2
  MinSuccess = 1
  MaxClock = 3
  MaxFaults = 1
  None = None
  Dead = Dead
  Notifiable = {"failed", "recovered", "repaired"}
  Batch = 2
  MaxSendFaults = 2
INVARIANTS
  TypeOK
  PassedIsSent
PROPERTIES
  OnlyLastRepeated
  AlertsDelivered
CHECK_DEADLOCK FALSE

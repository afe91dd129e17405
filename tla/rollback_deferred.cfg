SPECIFICATION Spec
CONSTANTS
  Jobs <- MCOneJob
  Workers = {w1, w2}
  MaxServer = 2
  MaxAttempts = 1
  MaxTemporary = 2
  Faults <- DeferralOnly
  MaxFaults = 2
  None = None
  Dead = Dead
SYMMETRY Symmetry
INVARIANTS
  MasterTargetKept

SPECIFICATION FairSpec
CONSTANTS
  Jobs <- MCOneJob
  Workers = {w1, w2}
  MaxServer = 3
  MaxAttempts = 2
  MaxTemporary = 2
  Faults <- LeaseFaults
  MaxFaults = 1
  None = None
  Dead = Dead
PROPERTIES
  LeaseTakenByNobody
  JobEnds

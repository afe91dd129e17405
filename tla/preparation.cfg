SPECIFICATION FairSpec
CONSTANTS
  Rounds = 5
  Required = 3
  OuterProbes = 3
  OuterMin = 2
  InnerProbes = 3
  InnerMin = 1
  MaxFaults = 4
INVARIANTS
  TypeOK
  VerdictsSound
  VerifiedPanelWorks
  FailureLeavesNoService
PROPERTIES
  DeploymentEnds
CHECK_DEADLOCK FALSE

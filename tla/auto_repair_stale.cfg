SPECIFICATION Spec
CONSTANTS
  NodeCount = 1
  MaxConcurrent = 1
  Presses = 0
  MaxChanges = 1
  None = None
PROPERTIES
  MonitorOnlyNeverRepaired
CHECK_DEADLOCK FALSE

SPECIFICATION FairSpec
CONSTANTS
  NodeCount = 2
  MaxConcurrent = 1
  Presses = 1
  MaxChanges = 3
  None = None
INVARIANTS
  TypeOK
  ConcurrencyBounded
  WorkerNeverRepeats
  
PROPERTIES
  ReplayAnswersSameJob
  RepairStarts
CHECK_DEADLOCK FALSE

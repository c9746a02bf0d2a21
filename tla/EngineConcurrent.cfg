SPECIFICATION FairSpec
CONSTANTS
  Keys <- OneKey
  LabelSpan = 2
  MaxTs = 2
  Callers = {c1, c2}
  Operations = {"write", "flush"}
  Targets <- NoTargets
  Capacity = 1
  L0FileThreshold = 2
  TargetEdges = 1
  GraphAwareL0 = FALSE
  AutoCompaction = TRUE
  Preemptive = TRUE
  MaxMem = 3
  MaxFiles = 5
  MaxReads = 0
  MaxCompactions = 2
  MaxFaults = 1
  MaxCrashes = 0
INVARIANTS EveryWriteHeld
PROPERTIES OperationReturns ImplementsStore
CHECK_DEADLOCK FALSE

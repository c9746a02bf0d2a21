SPECIFICATION Spec
CONSTANTS
  Keys <- TwoKeys
  LabelSpan = 2
  MaxTs = 2
  Callers = {c1, c2}
  Operations = {"write", "compact"}
  Targets <- NoTargets
  Capacity = 1
  L0FileThreshold = 2
  TargetEdges = 1
  GraphAwareL0 = FALSE
  AutoCompaction = FALSE
  Preemptive = FALSE
  MaxMem = 4
  MaxFiles = 6
  MaxReads = 0
  MaxCompactions = 1
  MaxFaults = 0
  MaxCrashes = 0
PROPERTIES CompactionPreservesVisible
CHECK_DEADLOCK FALSE

SPECIFICATION Spec
CONSTANTS
  Keys <- OneKey
  LabelSpan = 2
  MaxTs = 5
  Callers = {"c1"}
  Operations = {"write"}
  Targets <- SomeTargets
  Capacity = 2
  L0FileThreshold = 2
  TargetEdges = 1
  GraphAwareL0 = FALSE
  AutoCompaction = FALSE
  Preemptive = TRUE
  MaxMem = 4
  MaxFiles = 6
  MaxReads = 0
  MaxCompactions = 0
  MaxFaults = 0
  MaxCrashes = 0
INVARIANTS VersionExact
CHECK_DEADLOCK FALSE

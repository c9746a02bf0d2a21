SPECIFICATION Spec
CONSTANTS
  Keys <- ThreeKeys
  LabelSpan = 2
  MaxTs = 2
  Callers = {"c1"}
  Operations = {"write", "flush", "compact", "target", "scan", "neighbors"}
  Targets <- SomeTargets
  Capacity = 2
  L0FileThreshold = 2
  TargetEdges = 1
  GraphAwareL0 = FALSE
  AutoCompaction = FALSE
  Preemptive = FALSE
  MaxMem = 4
  MaxFiles = 6
  MaxReads = 1
  MaxCompactions = 2
  MaxFaults = 0
  MaxCrashes = 1
INVARIANTS VersionExact IndexExact ReadExact
PROPERTIES CompactionPreservesVisible
CHECK_DEADLOCK FALSE

SPECIFICATION Spec
CONSTANTS
  Keys <- TwoKeys
  LabelSpan = 2
  MaxTs = 2
  Callers = {"c1"}
  Operations = {"write", "flush", "target", "scan"}
  Targets <- SomeTargets
  Capacity = 2
  L0FileThreshold = 2
  TargetEdges = 1
  GraphAwareL0 = TRUE
  AutoCompaction = TRUE
  Preemptive = TRUE
  MaxMem = 3
  MaxFiles = 6
  MaxReads = 1
  MaxCompactions = 1
  MaxFaults = 1
  MaxCrashes = 1
INVARIANTS TypeOK RecoveryExact EveryWriteHeld TimestampsUnique
PROPERTIES SegmentsImmutable ImplementsStore FlushActiveDurable
CHECK_DEADLOCK FALSE

SPECIFICATION Spec
CONSTANTS
  Keys = {}
  LabelSpan = 16
  MaxTs = 0
  Csv <- SmallCsv
  Stream <- SmallStream
  HttpUpdates <- EveryUpdate
  memgraph_capacity = 3
  MaxCommands = 5
  MaxCrashes = 1
  MaxHttpUpdates = 2
INVARIANTS CacheExact CacheUsable ServedLikeStream
CHECK_DEADLOCK FALSE

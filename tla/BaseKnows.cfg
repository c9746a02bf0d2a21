SPECIFICATION ViewSpec
CONSTANTS
  Keys <- FourEdges
  LabelSpan = 2
  MaxTs = 4
  inline_segment_capacity = 2
  MaxEdges = 4
  graph_aware_l0 = TRUE
  segment_target_edges = 1
  min_l0_partition_edges = 2
  max_l0_segments_per_flush = 2
  Inputs = {"whole", "dangling"}
  csv <- SomeCsv
  small_degree_threshold = 1
  neighbor_block_items = 2
  MaxBuilds = 2
  Calls <- SomeCalls
CHECK_DEADLOCK FALSE
INVARIANTS KnowsExact

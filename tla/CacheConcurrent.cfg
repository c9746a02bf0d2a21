SPECIFICATION L0Spec
CONSTANTS
  Files <- SomeFiles
  Sources = {1, 2, 3, 4, 5, 6, 7, 8, 9}
  offsets <- SomeOffsets
  hashes <- SomeHashes
  max_entries = 2
  r1 = r1
  r2 = r2
  Readers = {r1, r2}
  Recorders = {r1, r2}
  Durations = {1, 4}
  bounds <- SomeBounds
  MaxCalls = 9
  MaxFaults = 1
  l0 <- SomeL0
  Keys <- SomeKeys
  LabelSpan = 4
  MaxTs = 1
  edges_of <- SomeEdges
  mib <- SomeMib
  Queries <- SomeQueries
  MaxQueries = 3
  l0_ra_range_bucket_size = 4
  l0_ra_min_queries = 2
  l0_ra_min_l0_segments = 1
  l0_ra_min_score = 1
INVARIANTS CacheBounded AnswerExact ProbesAccounted PickCoversReads LatencyExact
SYMMETRY ReaderSymmetry
CHECK_DEADLOCK FALSE

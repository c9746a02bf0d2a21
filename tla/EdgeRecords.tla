---------------------------- MODULE EdgeRecords ----------------------------
(***************************************************************************)
(* The data the storage engine moves around, and the pure functions over   *)
(* it: edge records, the merge of several versions of an edge, the         *)
(* metadata that the CSR writer derives for a segment, and the filters     *)
(* that the read path and the compaction picker apply to that metadata.    *)
(*                                                                         *)
(* A list of records (a memgraph, a segment, a vector of updates) is the   *)
(* set of its records: timestamps are unique, and every list is sorted     *)
(* before use, so neither order nor multiplicity carries information.      *)
(***************************************************************************)
EXTENDS Integers, FiniteSets, FiniteSetsExt

CONSTANTS
  Keys,       \* edge identities [src, edge_type, dst] that callers write
  LabelSpan,  \* 2 ^ VERTEX_LABEL_SHIFT: the vertex ids of one label
  MaxTs       \* bound: timestamps allocated in one run of the engine

ASSUME KeysAssumption ==
  Keys \subseteq [src : Nat, edge_type : Int, dst : Nat]

ASSUME LabelSpanAssumption == LabelSpan \in Nat \ {0}

ASSUME MaxTsAssumption == MaxTs \in Nat

UNKNOWN_SOURCE_LABEL == 0
MIXED_EDGE_TYPE == 0

\* Option<EdgeType>: None is the empty set, Some(t) the set of t alone.  Types
\* are signed: a reverse edge has the negated type of its label.
NoEdgeType == {}

EdgeMarker == {"Insert", "Delete"}

EdgeRecord == [key : Keys, ts : 1..MaxTs, marker : EdgeMarker]

\* The label encoded in the high bits of a vertex id; ids outside the eight
\* SNB labels have none.
source_label_from_vertex_id(src) ==
  LET label == src \div LabelSpan
  IN IF label \in 1..8 THEN label ELSE UNKNOWN_SOURCE_LABEL

-----------------------------------------------------------------------------
(* Merging versions.                                                       *)

\* The newest record of every key among those a snapshot can see; a
\* tombstone shadows the older records of its key even when it is dropped.
merge_latest_records(updates, snapshot, keep_tombstones) ==
  LET seen == {e \in updates : e.ts <= snapshot}
      newest == {e \in seen : \A o \in seen : o.key = e.key => o.ts <= e.ts}
  IN {e \in newest : keep_tombstones \/ e.marker = "Insert"}

merge_visible(updates, snapshot) ==
  {e \in merge_latest_records(updates, snapshot, FALSE) : e.marker = "Insert"}

-----------------------------------------------------------------------------
(* Segment metadata.                                                       *)

\* The one value of a non-empty set, or a default that stands for "several".
CommonValue(S, several) ==
  IF Cardinality(S) = 1 THEN CHOOSE x \in S : TRUE ELSE several

segment_src_label(edges) ==
  CommonValue({source_label_from_vertex_id(e.key.src) : e \in edges},
              UNKNOWN_SOURCE_LABEL)

segment_edge_type(edges) ==
  CommonValue({e.key.edge_type : e \in edges}, MIXED_EDGE_TYPE)

min_src(edges) ==
  IF edges = {} THEN 0 ELSE Min({e.key.src : e \in edges})

max_src(edges) ==
  IF edges = {} THEN 0 ELSE Max({e.key.src : e \in edges})

max_ts(edges) == IF edges = {} THEN 0 ELSE Max({e.ts : e \in edges})

-----------------------------------------------------------------------------
(* Filters.  A segment is represented by its edges.                        *)

ranges_overlap(left_min, left_max, right_min, right_max) ==
  left_min <= right_max /\ right_min <= left_max

\* Slip: a segment of mixed types is taken for one of type zero.
partition_overlaps_unmixed(edges, src_label, edge_type) ==
  /\ \/ src_label = UNKNOWN_SOURCE_LABEL
     \/ segment_src_label(edges) \in {UNKNOWN_SOURCE_LABEL, src_label}
  /\ \/ edge_type = NoEdgeType
     \/ segment_edge_type(edges) \in edge_type

partition_overlaps_target(edges, src_label, edge_type) ==
  /\ \/ src_label = UNKNOWN_SOURCE_LABEL
     \/ segment_src_label(edges) \in {UNKNOWN_SOURCE_LABEL, src_label}
  /\ \/ edge_type = NoEdgeType
     \/ segment_edge_type(edges) \in {MIXED_EDGE_TYPE} \cup edge_type

\* Whether get_neighbors has to look into an L0 segment.
may_contain_partition(edges, src, edge_type) ==
  partition_overlaps_target(edges, source_label_from_vertex_id(src), edge_type)

\* A compaction target names a label, maybe a type, and maybe a range of
\* sources (bounded = FALSE when the caller gave none).
target_matches_meta(edges, target) ==
  /\ partition_overlaps_target(edges, target.src_label, target.edge_type)
  /\ target.bounded =>
       ranges_overlap(min_src(edges), max_src(edges),
                      target.min_src, target.max_src)

-----------------------------------------------------------------------------
(* Splitting sorted records into segments.                                 *)

\* split_range_bounded_segments closes a segment at the first change of
\* source after target_edges records: the first segment of what is left.
first_range_segment(edges, target_edges) ==
  LET upto(s) == {e \in edges : e.key.src <= s}
      ends == {s \in {e.key.src : e \in edges} :
                 Cardinality(upto(s)) >= target_edges}
  IN IF ends = {} THEN edges ELSE upto(Min(ends))

=============================================================================

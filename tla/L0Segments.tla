----------------------------- MODULE L0Segments -----------------------------
(***************************************************************************)
(* How the records of a frozen memgraph are cut into L0 segments           *)
(* (build_l0_flush_segments and its helpers in src/graph.rs), and what a   *)
(* segment looks like on disk (src/csr/writer.rs, reader.rs, format.rs).   *)
(*                                                                         *)
(* Lists of records are sequences here.  A size in bytes is a number of    *)
(* records: an EdgeRecord has a fixed size.                                *)
(***************************************************************************)
EXTENDS EdgeRecords, Sorting, SequencesExt

CONSTANTS
  graph_aware_l0,
  segment_target_edges,      \* records in segment_target_bytes, at least one
  min_l0_partition_edges,    \* records in min_l0_partition_bytes
  max_l0_segments_per_flush

ASSUME L0Assumption ==
  /\ graph_aware_l0 \in BOOLEAN
  /\ segment_target_edges \in Nat \ {0}
  /\ min_l0_partition_edges \in Nat
  /\ max_l0_segments_per_flush \in Nat

\* The order (src, edge_type, dst, ts) of every sort in the storage engine.
Before(a, b) ==
  LET x == <<a.key.src, a.key.edge_type, a.key.dst, a.ts>>
      y == <<b.key.src, b.key.edge_type, b.key.dst, b.ts>>
  IN \E i \in 1..4 : x[i] < y[i] /\ \A j \in 1..(i - 1) : x[j] = y[j]

sort_by_key(edges) == SortedSet(edges, Before)

-----------------------------------------------------------------------------
(* Cutting.                                                                *)

\* Slip: a segment is closed wherever it is full.
CutAnywhere(cut, edge) ==
  IF Len(cut.current) >= segment_target_edges
    THEN [segments |-> Append(cut.segments, cut.current), current |-> <<edge>>]
    ELSE [cut EXCEPT !.current = Append(@, edge)]

\* One round of the loop: a segment is closed only where the source changes.
Cut(cut, edge) ==
  IF /\ Len(cut.current) >= segment_target_edges
     /\ Last(cut.current).key.src # edge.key.src
    THEN [segments |-> Append(cut.segments, cut.current), current |-> <<edge>>]
    ELSE [cut EXCEPT !.current = Append(@, edge)]

split_range_bounded_segments(edges) ==
  LET cut == FoldLeft(Cut, [segments |-> <<>>, current |-> <<>>], edges)
  IN IF edges = <<>> THEN <<>> ELSE Append(cut.segments, cut.current)

chunk_size(count) ==
  (count + max_l0_segments_per_flush - 1) \div max_l0_segments_per_flush

\* Slip: the segments left over after the last full chunk are dropped.
merged_count_floor(count) == count \div chunk_size(count)

merged_count(count) == (count + chunk_size(count) - 1) \div chunk_size(count)

\* Neighbouring segments are joined, chunk_size at a time.
merge_segments_to_cap(segments) ==
  LET n == Len(segments)
      chunk == chunk_size(n)
      end(i) == IF i * chunk < n THEN i * chunk ELSE n
  IN IF n <= max_l0_segments_per_flush \/ max_l0_segments_per_flush = 0
       THEN segments
       ELSE [i \in 1..merged_count(n) |->
               FlattenSeq(SubSeq(segments, (i - 1) * chunk + 1, end(i)))]

\* A label and type with too few records shares the mixed partition of its
\* label.
Partition(e, edges) ==
  LET label(o) == source_label_from_vertex_id(o.key.src)
      group == {o \in edges : /\ label(o) = label(e)
                              /\ o.key.edge_type = e.key.edge_type}
  IN <<label(e), IF Cardinality(group) < min_l0_partition_edges
                   THEN MIXED_EDGE_TYPE ELSE e.key.edge_type>>

build_l0_flush_segments(edges) ==
  LET keys == SortedSet({Partition(e, edges) : e \in edges},
                LAMBDA p, q : p[1] < q[1] \/ (p[1] = q[1] /\ p[2] < q[2]))
      group(p) == sort_by_key({e \in edges : Partition(e, edges) = p})
      parts == [i \in DOMAIN keys |->
                  split_range_bounded_segments(group(keys[i]))]
  IN IF graph_aware_l0 THEN merge_segments_to_cap(FlattenSeq(parts))
     ELSE <<sort_by_key(edges)>>

-----------------------------------------------------------------------------
(* A segment on disk: a table of sources over a list of bodies, which do   *)
(* not repeat their source.                                                *)

DiskEdgeBody(e) ==
  [dst |-> e.key.dst, ts |-> e.ts, edge_type |-> e.key.edge_type,
   marker |-> e.marker]

to_edge_record(body, src) ==
  [key |-> [src |-> src, edge_type |-> body.edge_type, dst |-> body.dst],
   ts |-> body.ts, marker |-> body.marker]

\* EdgeOffset of every source, with indices from zero.
EdgeOffsets(edges) ==
  LET sources == SortedSet({edges[i].key.src : i \in DOMAIN edges},
                           LAMBDA a, b : a < b)
      at(s) == {i \in DOMAIN edges : edges[i].key.src = s}
  IN [k \in DOMAIN sources |->
        [src |-> sources[k], first_edge_idx |-> Min(at(sources[k])) - 1,
         edge_count |-> Cardinality(at(sources[k]))]]

write_segment(edges) ==
  LET sorted == sort_by_key(ToSet(edges))
  IN [offsets |-> EdgeOffsets(sorted),
      bodies |-> [i \in DOMAIN sorted |-> DiskEdgeBody(sorted[i])],
      min_src |-> min_src(ToSet(edges)), max_src |-> max_src(ToSet(edges)),
      src_label |-> segment_src_label(ToSet(edges)),
      edge_type_partition |-> segment_edge_type(ToSet(edges))]

\* The records of one entry of the offset table.
ReadBodies(file, offset) ==
  LET slice == SubSeq(file.bodies, offset.first_edge_idx + 1,
                      offset.first_edge_idx + offset.edge_count)
  IN [i \in DOMAIN slice |-> to_edge_record(slice[i], offset.src)]

\* Slip: the last source of a segment is out of its range.
CsrNeighborsStrict(file, src) ==
  LET found == {i \in DOMAIN file.offsets : file.offsets[i].src = src}
  IN IF src < file.min_src \/ src >= file.max_src \/ found = {} THEN <<>>
     ELSE ReadBodies(file, file.offsets[CHOOSE i \in found : TRUE])

\* CsrReader::get_neighbors; the search of the table is the library's.
CsrNeighbors(file, src) ==
  LET found == {i \in DOMAIN file.offsets : file.offsets[i].src = src}
  IN IF src < file.min_src \/ src > file.max_src \/ found = {} THEN <<>>
     ELSE ReadBodies(file, file.offsets[CHOOSE i \in found : TRUE])

read_all_edges(file) ==
  FlattenSeq([k \in DOMAIN file.offsets |-> ReadBodies(file, file.offsets[k])])

=============================================================================

----------------------------- MODULE FlushPath ------------------------------
(***************************************************************************)
(* The way of a record from the memgraph to disk and back: inserts, the    *)
(* cut of the frozen memgraph into segments, the write of one segment      *)
(* after the other, and the lookups that read them.  LsmEngine takes a     *)
(* memgraph for the set of its records and lets a flush write any          *)
(* partition of that set; the properties here justify both.                *)
(***************************************************************************)
EXTENDS MemGraph, L0Segments

VARIABLES
  phase,     \* "open", then "flushing", then "flushed"
  segments,  \* segments still to be written
  files      \* segments on disk

vars == <<memVars, phase, segments, files>>

Init ==
  /\ MemInit
  /\ phase = "open"
  /\ segments = <<>>
  /\ files = <<>>

MemInsert ==
  /\ phase = "open"
  /\ Insert
  /\ UNCHANGED <<phase, segments, files>>

\* flush_memgraph takes all records of the frozen memgraph and cuts them.
BuildSegments ==
  /\ phase = "open"
  /\ edge_count > 0
  /\ phase' = "flushing"
  /\ segments' = build_l0_flush_segments(all_edges_sorted)
  /\ UNCHANGED <<memVars, files>>

WriteNext ==
  /\ phase = "flushing"
  /\ segments # <<>>
  /\ files' = Append(files, write_segment(Head(segments)))
  /\ segments' = Tail(segments)
  /\ phase' = IF Len(segments) = 1 THEN "flushed" ELSE phase
  /\ UNCHANGED memVars

Next == MemInsert \/ BuildSegments \/ WriteNext

Spec == Init /\ [][Next]_vars

-----------------------------------------------------------------------------
(* Lookups of a source, with one type or with NoEdgeType.                  *)

Typed(records, t) ==
  {e \in records : t = NoEdgeType \/ e.key.edge_type \in t}

\* CsrSegmentMeta::may_contain_partition, on the metadata of a file.
FileMayContain(file, s, t) ==
  /\ \/ file.src_label \in {UNKNOWN_SOURCE_LABEL,
                            source_label_from_vertex_id(s)}
     \/ source_label_from_vertex_id(s) = UNKNOWN_SOURCE_LABEL
  /\ t = NoEdgeType \/ file.edge_type_partition \in {MIXED_EDGE_TYPE} \cup t

SegmentRecords(s, t) ==
  Typed(UNION {ToSet(CsrNeighbors(files[i], s)) :
                 i \in {j \in DOMAIN files : FileMayContain(files[j], s, t)}}, t)

-----------------------------------------------------------------------------
(* Properties.                                                             *)

\* All segments of the flush, the written ones as a full scan reads them.
AllSegments ==
  [i \in DOMAIN files |-> read_all_edges(files[i])] \o segments

\* The segments of a flush are not empty, not more than the cap allows, and
\* hold every record of the memgraph exactly once, before and after they are
\* written.
SegmentsPartition ==
  phase # "open" =>
    LET records == FlattenSeq(AllSegments)
    IN /\ \A i \in DOMAIN AllSegments : AllSegments[i] # <<>>
       /\ Len(records) = Cardinality(inserted)
       /\ ToSet(records) = inserted
       /\ graph_aware_l0 /\ max_l0_segments_per_flush > 0 =>
            Len(AllSegments) <= max_l0_segments_per_flush

\* The records of one source and type are in one segment: a lookup of a
\* typed neighborhood reads one segment of every flush.
NeighborhoodsWhole ==
  \A i, j \in DOMAIN AllSegments :
    (\E k \in DOMAIN AllSegments[i], l \in DOMAIN AllSegments[j] :
       LET a == AllSegments[i][k].key
           b == AllSegments[j][l].key
       IN a.src = b.src /\ a.edge_type = b.edge_type)
    => i = j

\* A flushed memgraph answers like the memgraph: the lookups of a source in
\* the segments that pass the partition filter return the records that the
\* memgraph returns, with every type and with one.
FlushedReadsSame ==
  phase = "flushed" =>
    \A s \in Sources :
      \A t \in {{k.edge_type} : k \in Keys} \cup {NoEdgeType} :
        SegmentRecords(s, t) = Typed(get_edges_for_src(s), t)

=============================================================================

------------------------------ MODULE L0Reads -------------------------------
(***************************************************************************)
(* The L0 loop of Engine::get_neighbors_typed_internal with what it counts *)
(* (src/graph.rs, src/metrics.rs): the candidates of a query pass the      *)
(* range filter and the cached bloom filter, the rest are looked up and    *)
(* read; an outcome goes to atomic totals at once, and to the metrics of a *)
(* partition, under a mutex, when the segment is done.  These metrics      *)
(* choose what compact_best_l0_partition_by_score compacts.  A query that  *)
(* ends well records its latency.                                          *)
(*                                                                         *)
(* The version has L0 segments only, and nobody changes it.                *)
(***************************************************************************)
EXTENDS MetadataCache, EdgeRecords, LatencyMetric

CONSTANTS
  l0,                       \* the L0 segments of the version, in order
  edges_of,                 \* segment -> its edges
  mib,                      \* segment -> estimated_meta_bytes in MiB
  Queries,                  \* [src, edge_type] that are asked for
  l0_ra_range_bucket_size,
  l0_ra_min_queries,
  l0_ra_min_l0_segments,
  l0_ra_min_score,
  MaxQueries                \* bound: queries started

ASSUME L0ReadsAssumption ==
  /\ l0 \in Seq(Files)
  /\ Sources \subseteq Nat
  /\ \A q \in Queries : /\ q.src \in Sources
                         /\ IsFiniteSet(q.edge_type)
                         /\ Cardinality(q.edge_type) <= 1
  /\ \A f \in Files : offsets[f] = {e.key.src : e \in edges_of[f]}
  /\ l0_ra_range_bucket_size \in Nat \ {0}
  /\ Readers = Recorders

VARIABLES
  query,       \* reader -> the query it runs
  partitions,  \* l0_partition_metrics: key -> counters
  totals,      \* counters of Metrics
  failed,      \* segments that a failed query left unfinished
  looked_up    \* key -> segments that were looked up for it

l0Vars == <<query, partitions, totals, failed, looked_up>>

readVars == <<vars, latencyVars, l0Vars>>

-----------------------------------------------------------------------------
(* Counters.                                                               *)

\* Slip: a query for all types is counted for the mixed partition.
l0_partition_key_mixed(src, edge_type, f) ==
  [src_label |-> source_label_from_vertex_id(src),
   edge_type |-> CommonValue(edge_type, MIXED_EDGE_TYPE),
   range_start |-> src - (src % l0_ra_range_bucket_size)]

\* A key's range is the bucket that begins at range_start.
l0_partition_key(src, edge_type, f) ==
  LET label == source_label_from_vertex_id(src)
  IN [src_label |-> IF label = UNKNOWN_SOURCE_LABEL
                    THEN segment_src_label(edges_of[f]) ELSE label,
      edge_type |-> CommonValue(edge_type, segment_edge_type(edges_of[f])),
      range_start |-> src - (src % l0_ra_range_bucket_size)]

ProbeFields ==
  {"candidate", "range_filtered", "bloom_filtered", "filter_passed", "matched",
   "cache_hit", "cache_miss", "body_read", "false_positive"}

\* The counters that begin at zero, with one added to those of a set.
Zero(fields) == [x \in fields |-> 0]

Plus(counters, fields) ==
  [x \in DOMAIN counters |-> counters[x] + IF x \in fields THEN 1 ELSE 0]

metric(key) ==
  IF key \in DOMAIN partitions THEN partitions[key]
  ELSE Zero(ProbeFields \cup {"query"})

\* Both recorders of a partition create its metrics on first use.
record_l0_partition(key, fields) ==
  partitions' = [k \in DOMAIN partitions \cup {key} |->
    IF k = key THEN Plus(metric(key), fields) ELSE partitions[k]]

Count(fields) == totals' = Plus(totals, fields)

-----------------------------------------------------------------------------
(* A query.                                                                *)

L0Init ==
  /\ Init
  /\ LatencyInit
  /\ query = [r \in Readers |-> [pc |-> "idle"]]
  /\ partitions = <<>>
  /\ totals = Zero(ProbeFields \cup {"get_neighbors_ops", "lookup_hit",
                                     "lookup_miss"})
  /\ failed = {}
  /\ looked_up = <<>>

\* What a query asks for a segment, and the key its outcome is counted for.
May(r, f) == may_contain_partition(edges_of[f], query[r].src, query[r].edge_type)

KeyOf(r, f) == l0_partition_key(query[r].src, query[r].edge_type, f)

\* The segment a query is at.
Segment(r) == l0[query[r].at]

Key(r) == KeyOf(r, Segment(r))

\* The segments that are left for a query.  Those of other labels and types
\* are skipped without a trace.
Left(r) == {i \in DOMAIN l0 : i > query[r].at /\ May(r, l0[i])}

QueryStart(r) ==
  /\ query[r].pc = "idle"
  /\ rec[r].pc = "idle"
  /\ totals.get_neighbors_ops < MaxQueries
  /\ Count({"get_neighbors_ops"})
  /\ \E q \in Queries :
       query' = [query EXCEPT ![r] =
         [pc |-> "turn", src |-> q.src, edge_type |-> q.edge_type, at |-> 0,
          touched |-> {}, probe |-> {}]]
  /\ UNCHANGED <<vars, latencyVars, partitions, failed, looked_up>>

InRange(f, src) ==
  /\ min_src(edges_of[f]) <= src
  /\ src <= max_src(edges_of[f])

\* The query turns to its next segment, which is counted as a query of a
\* partition once, and drops it if its range excludes the source.
Turn(r) ==
  LET f == l0[Min(Left(r))]
      key == KeyOf(r, f)
      first == IF key \in query[r].touched THEN {} ELSE {"query"}
      next == [query[r] EXCEPT !.at = Min(Left(r)),
                               !.touched = @ \cup {key}]
  IN /\ query[r].pc = "turn"
     /\ Left(r) # {}
     /\ \/ /\ ~ InRange(f, query[r].src)
           /\ Count({"candidate", "range_filtered"})
           /\ record_l0_partition(key, first \cup {"candidate", "range_filtered"})
           /\ query' = [query EXCEPT ![r] = next]
           /\ UNCHANGED vars
        \/ /\ InRange(f, query[r].src)
           /\ Count({"candidate"})
           /\ record_l0_partition(key, first)
           /\ query' = [query EXCEPT ![r] =
                [next EXCEPT !.pc = "segment", !.probe = {"candidate"}]]
           /\ Visit(r)
           /\ reader'[r].file = f
           /\ reader'[r].src = query[r].src
     /\ UNCHANGED <<latencyVars, failed, looked_up>>

\* The outcome of a segment is counted for its partition, and the query goes
\* on.
Finish(r, fields) ==
  /\ record_l0_partition(Key(r), fields)
  /\ query' = [query EXCEPT ![r] = [query[r] EXCEPT !.pc = "turn", !.probe = {}]]

\* The segment goes to the lookup, with what the probe saw of the cache.
Pass(r, seen) ==
  /\ query' = [query EXCEPT
       ![r] = [query[r] EXCEPT !.probe = @ \cup {"filter_passed", seen}]]
  /\ looked_up' = [k \in DOMAIN looked_up \cup {Key(r)} |->
       (IF k \in DOMAIN looked_up THEN looked_up[k] ELSE {})
         \cup IF k = Key(r) THEN {Segment(r)} ELSE {}]
  /\ Count({"filter_passed"})
  /\ UNCHANGED partitions

CachedProbe(r) ==
  /\ query[r].pc = "segment"
  /\ ProbeHit(r)
  /\ \/ /\ reader'[r].pc = "lookup"
        /\ Pass(r, "cache_hit")
     \/ /\ reader'[r].pc = "answered"
        /\ Count({"bloom_filtered"})
        /\ Finish(r, query[r].probe \cup {"bloom_filtered", "cache_hit"})
        /\ UNCHANGED looked_up
  /\ UNCHANGED <<latencyVars, failed>>

UncachedProbe(r) ==
  /\ query[r].pc = "segment"
  /\ ProbeMiss(r)
  /\ Pass(r, "cache_miss")
  /\ UNCHANGED <<latencyVars, failed>>

LookupUncached(r) ==
  /\ query[r].pc = "segment"
  /\ LookupMiss(r)
  /\ Count({"lookup_miss"})
  /\ UNCHANGED <<latencyVars, query, partitions, failed, looked_up>>

\* The offset table is at hand.  A source that is not in it is a false
\* positive if the filter has all its bits; the partition counts one only if
\* the filter was cached, and the totals count any other as filtered.
Search(r, found_in_cache) ==
  LET table == Metadata(offsets[Segment(r)])
      hit == IF found_in_cache THEN {"lookup_hit"} ELSE {}
      bloom == IF may_contain(table, query[r].src)
               THEN {"false_positive"} ELSE {"bloom_filtered"}
      known == IF "cache_hit" \in query[r].probe
               THEN {"false_positive"} ELSE {}
  IN \/ /\ reader'[r].found
        /\ Count(hit)
        /\ query' = [query EXCEPT ![r] = [query[r] EXCEPT !.pc = "body"]]
        /\ UNCHANGED partitions
     \/ /\ ~ reader'[r].found
        /\ Count(hit \cup bloom)
        /\ Finish(r, query[r].probe \cup known)

LookupCached(r) ==
  /\ query[r].pc = "segment"
  /\ LookupHit(r)
  /\ Search(r, TRUE)
  /\ UNCHANGED <<latencyVars, failed, looked_up>>

LookupRead(r) ==
  /\ query[r].pc = "segment"
  /\ ReadInsert(r)
  /\ Search(r, FALSE)
  /\ UNCHANGED <<latencyVars, failed, looked_up>>

\* Slip: a segment whose edges were read is not counted as matched.
BodyReadUnmatched(r) ==
  /\ query[r].pc = "body"
  /\ Count({"matched", "body_read"})
  /\ Finish(r, query[r].probe \cup {"body_read"})
  /\ UNCHANGED <<vars, latencyVars, failed, looked_up>>

BodyRead(r) ==
  /\ query[r].pc = "body"
  /\ Count({"matched", "body_read"})
  /\ Finish(r, query[r].probe \cup {"matched", "body_read"})
  /\ UNCHANGED <<vars, latencyVars, failed, looked_up>>

\* A failed read ends the query with the error: nothing of the segment is
\* counted for its partition, and no latency.
Fail(r) ==
  /\ \/ query[r].pc = "segment" /\ ReadFail(r)
     \/ query[r].pc = "body" /\ BodyFail(r)
  /\ failed' = failed \cup {[ops |-> totals.get_neighbors_ops, reader |-> r,
                             probe |-> query[r].probe]}
  /\ query' = [query EXCEPT ![r] = [pc |-> "idle"]]
  /\ UNCHANGED <<latencyVars, partitions, totals, looked_up>>

\* The latency of a query is recorded when it ends.
QueryEnd(r) ==
  /\ query[r].pc = "turn"
  /\ Left(r) = {}
  /\ \E us \in Durations : Add(r, us)
  /\ query' = [query EXCEPT ![r] = [pc |-> "idle"]]
  /\ UNCHANGED <<vars, partitions, totals, failed, looked_up>>

RecordLatency(r) ==
  /\ RecordStep(r)
  /\ UNCHANGED <<vars, l0Vars>>

L0Next ==
  \E r \in Readers :
    \/ QueryStart(r) \/ Turn(r) \/ CachedProbe(r) \/ UncachedProbe(r)
    \/ LookupUncached(r) \/ LookupCached(r) \/ LookupRead(r) \/ BodyRead(r)
    \/ Fail(r) \/ QueryEnd(r) \/ RecordLatency(r)

L0Spec == L0Init /\ [][L0Next]_readVars

-----------------------------------------------------------------------------
(* compact_best_l0_partition_by_score.                                     *)

\* The segments that compact_l0_range_to_l1 takes for a key.
Selected(key) ==
  {f \in ToSet(l0) :
     target_matches_meta(edges_of[f],
       [src_label |-> key.src_label, edge_type |-> {key.edge_type},
        bounded |-> TRUE, min_src |-> key.range_start,
        max_src |-> key.range_start + l0_ra_range_bucket_size - 1])}

Larger(a, b) == IF a > b THEN a ELSE b

\* query_count * max(candidates / query_count, 1) * (1 + miss rate)
\* / max(MiB, 1), as a numerator over a denominator.
Score(key) ==
  LET m == partitions[key]
      probes == m.cache_hit + m.cache_miss
      size == MapThenSumSet(LAMBDA f : mib[f], Selected(key))
  IN [n |-> Larger(m.candidate, m.query)
              * IF probes = 0 THEN 1 ELSE probes + m.cache_miss,
      d |-> (IF probes = 0 THEN 1 ELSE probes) * Larger(size, 1)]

\* The partitions with the highest score, of which the last one is picked.
pick_l0_partition_by_score ==
  LET queried == {key \in DOMAIN partitions :
                    /\ partitions[key].query >= l0_ra_min_queries
                    /\ Cardinality(Selected(key)) >= l0_ra_min_l0_segments}
      score == [key \in queried |-> Score(key)]
      scored == {key \in queried : score[key].n >= l0_ra_min_score * score[key].d}
  IN {key \in scored : \A other \in scored :
        score[key].n * score[other].d >= score[other].n * score[key].d}

-----------------------------------------------------------------------------
(* Properties.                                                             *)

\* What the partitions have counted in a field.
Counted(field) ==
  MapThenSumSet(LAMBDA k : partitions[k][field], DOMAIN partitions)

\* Segments whose outcome is not in the metrics of a partition: those that a
\* query is at, and those that a failed query was at.
Underway(field) ==
  Cardinality({r \in Readers : /\ query[r].pc \in {"segment", "body"}
                               /\ field \in query[r].probe})
    + Cardinality({x \in failed : field \in x.probe})

\* A partition's candidates are the filtered and the passed ones, and the
\* cache was asked about all but those outside the range.
PartitionsBalanced ==
  \A key \in DOMAIN partitions :
    LET m == partitions[key]
    IN /\ m.candidate = m.range_filtered + m.bloom_filtered + m.filter_passed
       /\ m.cache_hit + m.cache_miss = m.bloom_filtered + m.filter_passed
       /\ m.matched <= m.filter_passed

\* Nothing is lost or counted twice between the totals and the partitions,
\* whatever the other queries insert or evict between the probe and the
\* lookup: a candidate is counted for a partition, underway or failed, and
\* the counters of a partition agree with each other.  A segment that passes
\* ends as matched, as a false positive, or, with a filter that was read too
\* late, among the filtered segments of the totals, once more.
ProbesAccounted ==
  LET late == totals.bloom_filtered - Counted("bloom_filtered")
  IN /\ \A field \in {"candidate", "range_filtered", "filter_passed",
                      "matched", "body_read"} :
          totals[field] = Counted(field) + Underway(field)
     /\ PartitionsBalanced
     /\ late >= 0
     /\ Counted("false_positive") <= totals.false_positive
     /\ totals.filter_passed
          = totals.matched + totals.false_positive + late
              + Underway("filter_passed")

\* The compaction that is picked rewrites every segment that a query had to
\* look into for the statistics that it is picked for.
PickCoversReads ==
  \A key \in pick_l0_partition_by_score \cap DOMAIN looked_up :
    looked_up[key] \subseteq Selected(key)

=============================================================================
